---- MODULE Spec2Model ----
(***************************************************************************)
(* Verification model of affinity-cli's provisioning and acquisition      *)
(* pipeline:                                                               *)
(*   - WineManager._extract_archive / _safe_extract  (archive extraction)  *)
(*   - PrefixPreparer.prepare                        (prefix preparation)  *)
(*   - SmartDownloader.ensure_universal / _stream_to_file (payload fetch)  *)
(* Each component has its own specification (SpecExtract, SpecPrepare,     *)
(* SpecDownload); the variables of the other components stay at their      *)
(* initial values.                                                         *)
(***************************************************************************)
EXTENDS Integers, Sequences, FiniteSets, TLC

VARIABLES
    fs,       \* the filesystem under /t: absolute path -> node
    wineDir,  \* WineManager.wine_dir
    xres,     \* what the last _extract_archive call did
    marker,   \* the prefix's .affinity_cli_prepared file: <<>> or <<text>>
    prep,     \* what the last PrefixPreparer.prepare call did
    dest,     \* the cached installer file: <<>> or <<its chunks>>
    urlFile,  \* CONFIG_URL_FILE (download_url.txt): <<>> or <<url>>
    dl,       \* what the last ensure_universal / _stream_to_file call did
    call      \* the last call of an operation that keeps no state of its
              \* own (_resolve_url, ...): its name, inputs and result

xvars == <<fs, wineDir, xres>>

pvars == <<marker, prep>>

dvars == <<dest, urlFile, dl>>

cvars == <<call>>

vars == <<xvars, pvars, dvars, cvars>>

(***************************************************************************)
(* Paths.  An absolute path is the sequence of its components; a member    *)
(* name or a link target is a sequence of components that may hold "..".   *)
(***************************************************************************)
Root == <<>>
TmpDir == <<"t">>
\* WineManager.install_dir, the destination of the extraction
Dest == <<"t", "i">>

Parent(p) == IF p = <<>> THEN <<>> ELSE SubSeq(p, 1, Len(p) - 1)

IsPrefix(p, q) == Len(p) <= Len(q) /\ SubSeq(q, 1, Len(p)) = p

\* resolved_str == dest_str or resolved_str.startswith(dest_str + os.sep)
Inside(p) == IsPrefix(Dest, p)

NoLink == [abs |-> FALSE, segs |-> <<>>]

Node(k, l) == [kind |-> k, link |-> l]

Exists(fsys, p) == p \in {Root, TmpDir, Dest} \/ p \in DOMAIN fsys

IsDir(fsys, p) ==
    \/ p \in {Root, TmpDir, Dest}
    \/ p \in DOMAIN fsys /\ fsys[p].kind = "dir"

IsSymlink(fsys, p) == p \in DOMAIN fsys /\ fsys[p].kind = "sym"

Put(fsys, p, n) == [q \in (DOMAIN fsys) \cup {p} |-> IF q = p THEN n ELSE fsys[q]]

Remove(fsys, S) == [q \in (DOMAIN fsys) \ S |-> fsys[q]]

EmptyFs == [q \in {} |-> Node("file", NoLink)]

(***************************************************************************)
(* Path.resolve(): os.path.realpath(strict=False).  Symbolic links that    *)
(* exist are followed, ".." pops the last component of the resolved path,  *)
(* a component that does not exist is appended as it is.                   *)
(***************************************************************************)
RECURSIVE Realpath(_, _, _)
Realpath(fsys, cur, segs) ==
    IF segs = <<>> THEN cur
    ELSE LET s == Head(segs)
             rest == Tail(segs)
             cand == Append(cur, s)
         IN IF s = ".." THEN Realpath(fsys, Parent(cur), rest)
            ELSE IF IsSymlink(fsys, cand)
            THEN LET t == fsys[cand].link
                     r == Realpath(fsys, IF t.abs THEN Root ELSE cur, t.segs)
                 IN Realpath(fsys, r, rest)
            ELSE Realpath(fsys, cand, rest)

(***************************************************************************)
(* The kernel's path resolution, which the writes of tarfile.extractall go *)
(* through: every component but the last must be a directory (after        *)
(* following links), ".." is the parent of the resolved directory.         *)
(* err = "ENOENT" with creatable = TRUE: only the last component is        *)
(* missing, and path is where open(O_CREAT) would create it.               *)
(***************************************************************************)
KErr(e, p, c) == [err |-> e, path |-> p, creatable |-> c]

RECURSIVE KResolve(_, _, _)
KResolve(fsys, cur, segs) ==
    IF segs = <<>> THEN [err |-> "none", path |-> cur, creatable |-> FALSE]
    ELSE IF ~IsDir(fsys, cur) THEN KErr("ENOTDIR", cur, FALSE)
    ELSE LET s == Head(segs)
             rest == Tail(segs)
             cand == Append(cur, s)
         IN IF s = ".." THEN KResolve(fsys, Parent(cur), rest)
            ELSE IF ~Exists(fsys, cand) THEN KErr("ENOENT", cand, rest = <<>>)
            ELSE IF IsSymlink(fsys, cand)
            THEN LET t == fsys[cand].link
                     r == KResolve(fsys, IF t.abs THEN Root ELSE cur, t.segs)
                 IN IF r.err = "none" THEN KResolve(fsys, r.path, rest)
                    ELSE KErr(r.err, r.path, r.creatable /\ rest = <<>>)
            ELSE KResolve(fsys, cand, rest)

\* os.path.exists(p): stat, following links
KExists(fsys, segs) == KResolve(fsys, Dest, segs).err = "none"

(***************************************************************************)
(* Archive members (tarfile.TarInfo): kind, name and link target.          *)
(***************************************************************************)
Member(k, n, l) == [kind |-> k, name |-> n, link |-> l]
Rel(segs) == [abs |-> FALSE, segs |-> segs]
Abs(segs) == [abs |-> TRUE, segs |-> segs]

\* Longest archive of the model, in members.
MaxMembers == 2

\* The archives of the model: the sequences of at most MaxMembers of
\* these members.
Archives ==
    UNION { [1..k ->
              { Member("reg", <<"f">>, NoLink),
                Member("reg", <<"..", "f">>, NoLink),
                Member("reg", <<"l", "..", "f">>, NoLink),
                Member("reg", <<"w", "f">>, NoLink),
                Member("reg", <<"wx", "f">>, NoLink),
                Member("dir", <<"w">>, NoLink),
                Member("sym", <<"l">>, Rel(<<>>)),          \* l -> .
                Member("sym", <<"l">>, Rel(<<"f">>)),       \* l -> f
                Member("sym", <<"l">>, Rel(<<"o">>)),       \* l -> o
                Member("sym", <<"l">>, Rel(<<"..", "f">>)), \* l -> ../f
                Member("sym", <<"l">>, Abs(<<"f">>)),       \* l -> /f
                Member("lnk", <<"h">>, Rel(<<"f">>)),
                Member("lnk", <<"h">>, Rel(<<"..", "f">>)),
                Member("chr", <<"c">>, NoLink),
                Member("blk", <<"c">>, NoLink),
                Member("fifo", <<"c">>, NoLink),
                Member("chr", <<"..", "c">>, NoLink) }] : k \in 0..MaxMembers }

\* as IsSpecial, with the FIFO test left out
IsSpecialNoFifo(m) == m.kind \in {"chr", "blk"}

\* member.ischr() or member.isblk() or member.isfifo() or member.isdev()
IsSpecial(m) == m.kind \in {"chr", "blk", "fifo"}

Front(s) == SubSeq(s, 1, Len(s) - 1)
Last(s) == s[Len(s)]

HasDotDot(segs) == \E i \in 1..Len(segs) : segs[i] = ".."

\* as LinkViolation, with the literal target checked but not where it resolves
LinkViolationLiteral(fsys, m) ==
    IF m.link.abs THEN "unsafe link"
    ELSE IF HasDotDot(m.link.segs) THEN "escaping link"
    ELSE "none"

\* if link_target.is_absolute(): raise ... unsafe link
\* if ".." in link_target.parts or (member_path.parent / link_target)
\* .resolve() is not inside: raise ... escaping link
LinkViolation(fsys, m) ==
    IF m.link.abs THEN "unsafe link"
    ELSE IF \/ HasDotDot(m.link.segs)
            \/ ~Inside(Realpath(fsys, Dest, Front(m.name) \o m.link.segs))
    THEN "escaping link"
    ELSE "none"

\* The body of the validation loop of _safe_extract for one member: the
\* message of the ValueError it raises, "none" when the member is approved.
MemberViolation(fsys, m) ==
    IF ~Inside(Realpath(fsys, Dest, m.name)) THEN "escapes destination"
    ELSE IF IsSpecial(m) THEN "unsupported special file"
    ELSE IF m.kind \in {"lnk", "sym"} THEN LinkViolation(fsys, m)
    ELSE "none"

\* The validation loop: the first member that raises decides the message.
RECURSIVE FirstViolation(_, _)
FirstViolation(fsys, archive) ==
    IF archive = <<>> THEN "none"
    ELSE IF MemberViolation(fsys, Head(archive)) # "none"
    THEN MemberViolation(fsys, Head(archive))
    ELSE FirstViolation(fsys, Tail(archive))

(***************************************************************************)
(* tar.extractall(path, members): each approved member is written in       *)
(* archive order through the kernel's path resolution.  A step returns     *)
(* the filesystem, the error that ended it ("none", "OSError",             *)
(* "KeyError", or an errno inside os.makedirs) and the paths it created    *)
(* or wrote.  r is the resolved parent directory of the entry.             *)
(***************************************************************************)
Step(fsys, e, w) == [fs |-> fsys, err |-> e, written |-> w]

\* a step after earlier ones that wrote w
After(w, st) == Step(st.fs, st.err, w \cup st.written)

\* os.mkdir(Dest/u), r the resolution of u's parent
MkdirIn(fsys, u, r) ==
    IF r.err # "none" THEN Step(fsys, r.err, {})
    ELSE IF ~IsDir(fsys, r.path) THEN Step(fsys, "ENOTDIR", {})
    ELSE IF Last(u) = ".." \/ Exists(fsys, Append(r.path, Last(u)))
    THEN Step(fsys, "EEXIST", {})
    ELSE Step(Put(fsys, Append(r.path, Last(u)), Node("dir", NoLink)), "none",
              {Append(r.path, Last(u))})

\* os.makedirs(Dest/u) once the missing ancestors are dealt with (pre): a
\* FileExistsError of theirs is passed over, then the directory itself
MakeDirsOwn(u, pre) ==
    IF pre.err \notin {"none", "EEXIST"} THEN pre
    ELSE After(pre.written,
               MkdirIn(pre.fs, u, KResolve(pre.fs, Dest, Front(u))))

RECURSIVE MakeDirs(_, _)
MakeDirs(fsys, u) ==
    MakeDirsOwn(u, IF Front(u) # <<>> /\ ~KExists(fsys, Front(u))
                   THEN MakeDirs(fsys, Front(u))
                   ELSE Step(fsys, "none", {}))

\* TarFile.makefile: open(targetpath, "wb"), which follows a link at the
\* last component and creates the file where the link points.
MakeFileAt(fsys, r) ==
    IF r.err = "none"
    THEN IF IsDir(fsys, r.path) THEN Step(fsys, "OSError", {})
         ELSE Step(Put(fsys, r.path, Node("file", NoLink)), "none", {r.path})
    ELSE IF r.err = "ENOENT" /\ r.creatable
    THEN Step(Put(fsys, r.path, Node("file", NoLink)), "none", {r.path})
    ELSE Step(fsys, "OSError", {})

\* TarFile.makedir once os.mkdir has run: an existing entry is passed over.
PassExisting(fsys, st) ==
    IF st.err \in {"none", "EEXIST"} THEN Step(st.fs, "none", st.written)
    ELSE Step(fsys, "OSError", {})

\* a new entry (link, FIFO, device) named name in the directory r resolves
\* to; replace: an existing entry that is no directory is unlinked first
CreateEntry(fsys, r, name, node, replace) ==
    IF r.err # "none" \/ ~IsDir(fsys, r.path) \/ Last(name) = ".."
    THEN Step(fsys, "OSError", {})
    ELSE IF \/ IsDir(fsys, Append(r.path, Last(name)))
            \/ ~replace /\ Exists(fsys, Append(r.path, Last(name)))
    THEN Step(fsys, "OSError", {})
    ELSE Step(Put(fsys, Append(r.path, Last(name)), node), "none",
              {Append(r.path, Last(name))})

\* os.path.normpath of a relative name: ".." cancels the component before it
RECURSIVE NormPath(_, _)
NormPath(done, segs) ==
    IF segs = <<>> THEN done
    ELSE IF Head(segs) = ".." /\ done # <<>> /\ Last(done) # ".."
    THEN NormPath(Front(done), Tail(segs))
    ELSE NormPath(Append(done, Head(segs)), Tail(segs))

\* TarFile.makelink for a hard link, src the resolution of its target: an
\* existing entry is unlinked, then os.link when the target exists on
\* disk; otherwise the member it names (names compared after normpath) is
\* looked up among the members that precede it (KeyError when there is
\* none) and extracted in its place.
MakeHardlinkTo(fsys, m, before, src) ==
    IF src.err = "none"
    THEN IF IsDir(fsys, src.path) THEN Step(fsys, "OSError", {})
         ELSE CreateEntry(fsys, KResolve(fsys, Dest, Front(m.name)), m.name,
                          fsys[src.path], TRUE)
    ELSE IF \E i \in 1..Len(before) :
                /\ NormPath(<<>>, before[i].name) = NormPath(<<>>, m.link.segs)
                /\ before[i].kind = "reg"
    THEN MakeFileAt(fsys, KResolve(fsys, Dest, m.name))
    ELSE Step(fsys, "KeyError", {})

\* the member itself, by type: makefile; makedir; makelink for a symbolic
\* link (an existing entry is unlinked, then os.symlink(linkname,
\* targetpath)) and for a hard link; makefifo / makedev (os.mkfifo,
\* os.mknod)
MakeEntry(fsys, m, before) ==
    CASE m.kind = "reg" -> MakeFileAt(fsys, KResolve(fsys, Dest, m.name))
      [] m.kind = "dir" ->
             PassExisting(fsys, MkdirIn(fsys, m.name,
                                        KResolve(fsys, Dest, Front(m.name))))
      [] m.kind = "sym" ->
             CreateEntry(fsys, KResolve(fsys, Dest, Front(m.name)), m.name,
                         Node("sym", m.link), TRUE)
      [] m.kind = "lnk" ->
             MakeHardlinkTo(fsys, m, before, KResolve(fsys, Dest, m.link.segs))
      [] OTHER ->
             CreateEntry(fsys, KResolve(fsys, Dest, Front(m.name)), m.name,
                         Node("special", NoLink), FALSE)

\* TarFile._extract_member once the upper directories are dealt with (md)
ExtractMemberIn(m, before, md) ==
    IF md.err # "none" THEN Step(md.fs, "OSError", md.written)
    ELSE After(md.written, MakeEntry(md.fs, m, before))

\* TarFile._extract_member: the missing upper directories, then the member.
ExtractMember(fsys, m, before) ==
    ExtractMemberIn(m, before,
                    IF Front(m.name) # <<>> /\ ~KExists(fsys, Front(m.name))
                    THEN MakeDirs(fsys, Front(m.name))
                    ELSE Step(fsys, "none", {}))

\* extractall over members[i..]: stops at the first error.
RECURSIVE ExtractFrom(_, _, _, _)
ExtractNext(members, i, written, r) ==
    IF r.err # "none" THEN After(written, r)
    ELSE ExtractFrom(r.fs, members, i + 1, written \cup r.written)

ExtractFrom(fsys, members, i, written) ==
    IF i > Len(members) THEN Step(fsys, "none", written)
    ELSE ExtractNext(members, i, written,
                     ExtractMember(fsys, members[i], SubSeq(members, 1, i - 1)))

\* as SafeExtract, with each member written as soon as it is approved
RECURSIVE EagerFrom(_, _, _, _)
EagerNext(members, i, written, r) ==
    IF r.err # "none" THEN After(written, r)
    ELSE EagerFrom(r.fs, members, i + 1, written \cup r.written)

EagerStep(fsys, members, i, written, v) ==
    IF v # "none" THEN Step(fsys, v, written)
    ELSE EagerNext(members, i, written,
                   ExtractMember(fsys, members[i], SubSeq(members, 1, i - 1)))

EagerFrom(fsys, members, i, written) ==
    IF i > Len(members) THEN Step(fsys, "none", written)
    ELSE EagerStep(fsys, members, i, written, MemberViolation(fsys, members[i]))

SafeExtractEager(fsys, archive) == EagerFrom(fsys, archive, 1, {})

\* _safe_extract: every member is validated against the filesystem as it
\* is before the extraction; only then are the approved members written.
\* err: "none", the ValueError's message, "OSError" or "KeyError".
SafeExtract(fsys, archive) ==
    IF FirstViolation(fsys, archive) # "none"
    THEN Step(fsys, FirstViolation(fsys, archive), {})
    ELSE ExtractFrom(fsys, archive, 1, {})

\* _cleanup_partial_install: shutil.rmtree(wine_dir) when it exists
CleanupPartialInstall(fsys, wd) ==
    IF IsDir(fsys, wd) THEN Remove(fsys, {q \in DOMAIN fsys : IsPrefix(wd, q)})
    ELSE fsys


(***************************************************************************)
(* WineManager: wine_dir, and the _extract_archive call as one step.       *)
(***************************************************************************)
\* install_dir / "wine-<version>" and the one directory glob("wine-<version>*")
\* can also match
ExpectedWineDir == Dest \o <<"w">>
SuffixedWineDir == Dest \o <<"wx">>

\* _refresh_wine_paths: the expected directory when it exists, else the
\* first directory matching the glob, else the expected directory
RefreshWinePaths(fsys) ==
    IF Exists(fsys, ExpectedWineDir) THEN ExpectedWineDir
    ELSE IF IsDir(fsys, SuffixedWineDir) THEN SuffixedWineDir
    ELSE ExpectedWineDir

(* What the call was given, recorded for the properties below.  These      *)
(* read the archive and the filesystem as they are before the call and     *)
(* use none of the validation operators above.                             *)
NameEscapes(fsys, m) ==
    LET p == Realpath(fsys, Dest, m.name)
    IN Len(p) < Len(Dest) \/ \E i \in 1..Len(Dest) : p[i] # Dest[i]

\* the ways in which a link member's target is unsafe
LinkFaults(fsys, m) ==
    IF m.kind \notin {"sym", "lnk"} THEN {}
    ELSE {x \in {"abs"} : m.link.abs}
         \cup {x \in {"dotdot"} : \E i \in 1..Len(m.link.segs) : m.link.segs[i] = ".."}
         \cup {x \in {"outside"} :
                 LET p == Realpath(fsys, IF m.link.abs THEN Root ELSE Dest,
                                   IF m.link.abs THEN m.link.segs
                                   ELSE Front(m.name) \o m.link.segs)
                 IN Len(p) < Len(Dest) \/ \E i \in 1..Len(Dest) : p[i] # Dest[i]}

\* how a member offends, "none" when it does not
Offence(fsys, m) ==
    IF NameEscapes(fsys, m) THEN "escape"
    ELSE IF m.kind \notin {"reg", "dir", "sym", "lnk"} THEN "special"
    ELSE IF LinkFaults(fsys, m) # {} THEN "link"
    ELSE "none"

\* bad: the indices of the offending members
GivenWith(fsys, archive, bad) ==
    [ escapes |-> \E i \in 1..Len(archive) : NameEscapes(fsys, archive[i]),
      special |-> \E i \in 1..Len(archive) :
                      archive[i].kind \notin {"reg", "dir", "sym", "lnk"},
      hasLink |-> \E i \in 1..Len(archive) : archive[i].kind \in {"sym", "lnk"},
      linkFaults |-> UNION {LinkFaults(fsys, archive[i]) : i \in 1..Len(archive)},
      firstOffence |->
          IF bad = {} THEN "none"
          ELSE Offence(fsys, archive[CHOOSE j \in bad : \A k \in bad : j <= k]),
      validBeforeOffender |-> \E i \in bad : \E j \in 1..(i - 1) : j \notin bad ]

Given(fsys, archive) ==
    GivenWith(fsys, archive,
              {i \in 1..Len(archive) : Offence(fsys, archive[i]) # "none"})

NoCall ==
    [ outcome |-> "none", msg |-> "", written |-> {},
      given |-> Given(EmptyFs, <<>>) ]

(***************************************************************************)
(* PrefixPreparer: the state before any prepare call.                      *)
(***************************************************************************)
\* marker.exists() is false
NoMarker == <<>>

\* _install_winetricks_components has not been called
NotInvoked == <<>>

NoPrepare ==
    [ outcome |-> "none", profile |-> "", before |-> NoMarker,
      env |-> [winecfg |-> TRUE, winetricks |-> "ok", regwrite |-> TRUE,
               regedit |-> TRUE, markerWritable |-> TRUE],
      steps |-> <<>>, handed |-> NotInvoked, repeat |-> FALSE ]

(***************************************************************************)
(* SmartDownloader: the state before any call.                             *)
(***************************************************************************)
\* dest.exists() is false
NoFile == <<>>

\* no URL (None), no expected checksum (None)
NoUrl == <<>>

NoChecksum == <<>>

NoDownload ==
    [ outcome |-> "none", why |-> "", expected |-> NoChecksum,
      before |-> NoFile, deleted |-> FALSE, resolved |-> FALSE,
      source |-> "", requests |-> <<>>, payload |-> <<>>,
      final |-> [status |-> "", cut |-> 0], wasLeftover |-> FALSE,
      leftover |-> FALSE ]

\* no stateless operation has been called
NothingCalled == [op |-> "none"]

\* nothing has been called and the install directory, the prefix and the
\* cache are empty
InitIdle ==
    /\ fs = EmptyFs
    /\ wineDir = RefreshWinePaths(fs)
    /\ xres = NoCall
    /\ marker = NoMarker
    /\ prep = NoPrepare
    /\ dest = NoFile
    /\ urlFile = NoUrl
    /\ dl = NoDownload
    /\ call = NothingCalled

\* _extract_archive(archive_path, destination) on a readable archive:
\* (True, "Extracted ...") when _safe_extract returns; a TarError, OSError
\* or ValueError is answered by _cleanup_partial_install and (False, msg);
\* any other exception (the KeyError of an unresolvable hard link) leaves
\* the call as it is.
Extracted(r, given) ==
    /\ fs' = IF r.err \in {"none", "KeyError"} THEN r.fs
             ELSE CleanupPartialInstall(r.fs, wineDir)
    /\ xres' = [ outcome |-> IF r.err = "none" THEN "ok"
                             ELSE IF r.err = "KeyError" THEN "raise"
                             ELSE "fail",
                 msg |-> IF r.err = "none" THEN "Extracted" ELSE r.err,
                 written |-> r.written,
                 given |-> given ]

ExtractArchive(archive) ==
    /\ xres.outcome = "none"
    /\ Extracted(SafeExtract(fs, archive), Given(fs, archive))
    /\ UNCHANGED <<wineDir, pvars, dvars, cvars>>

\* _extract_archive on a file tarfile.open cannot read (tarfile.ReadError)
ExtractUnreadable ==
    /\ xres.outcome = "none"
    /\ fs' = CleanupPartialInstall(fs, wineDir)
    /\ xres' = [NoCall EXCEPT !.outcome = "fail", !.msg = "TarError"]
    /\ UNCHANGED <<wineDir, pvars, dvars, cvars>>

\* The install directory as a run can find it: empty; holding a link "o"
\* that points out of it (to /t); holding what earlier extractions left (a
\* link "l" to the directory itself, a file "f", a wine directory).
\* A WineManager is constructed (wine_dir set by _refresh_wine_paths) and
\* _extract_archive is called on it once.
InitExtract ==
    /\ fs \in { EmptyFs,
                 Put(EmptyFs, Dest \o <<"o">>, Node("sym", Abs(TmpDir))),
                 Put(EmptyFs, Dest \o <<"l">>, Node("sym", Rel(<<>>))),
                 Put(EmptyFs, Dest \o <<"f">>, Node("file", NoLink)),
                 Put(Put(EmptyFs, ExpectedWineDir, Node("dir", NoLink)),
                     ExpectedWineDir \o <<"f">>, Node("file", NoLink)) }
    /\ wineDir = RefreshWinePaths(fs)
    /\ xres = NoCall
    /\ marker = NoMarker
    /\ prep = NoPrepare
    /\ dest = NoFile
    /\ urlFile = NoUrl
    /\ dl = NoDownload
    /\ call = NothingCalled

NextExtract ==
    \/ \E archive \in Archives : ExtractArchive(archive)
    \/ ExtractUnreadable

SpecExtract == InitExtract /\ [][NextExtract]_vars


(***************************************************************************)
(* Properties of the extraction (SpecExtract).                             *)
(***************************************************************************)
\* the call wrote at a path that is not under the install directory
WroteOutside ==
    \E p \in xres.written : Len(p) < Len(Dest) \/ \E i \in 1..Len(Dest) : p[i] # Dest[i]

\* what the call wrote that is still under the install directory
ArchiveFilesLeft ==
    {p \in xres.written : p \in DOMAIN fs /\ Len(p) > Len(Dest)
                          /\ \A i \in 1..Len(Dest) : p[i] = Dest[i]}

\* C1: an archive with a member whose destination lies outside the install
\* directory (by its resolved name, or by where the member really lands)
\* makes _extract_archive return failure, with the "escapes destination"
\* message when that member is the first offending one; nothing is written
\* outside the install directory and none of the archive's files is left
\* in it.
C1_EscapingArchiveRejected ==
    (xres.outcome # "none" /\ (xres.given.escapes \/ WroteOutside))
        => /\ xres.outcome = "fail"
           /\ xres.given.firstOffence = "escape" => xres.msg = "escapes destination"
           /\ ~WroteOutside
           /\ ArchiveFilesLeft = {}

\* C2: all-or-nothing: when any member of the archive breaks a rule, the
\* call fails and no member has been written, the valid members that
\* precede the offending one included.
C2_AllOrNothing ==
    (xres.outcome # "none" /\ xres.given.firstOffence # "none")
        => xres.outcome = "fail" /\ xres.written = {}

\* a rejected archive whose offending member follows a valid one
C2_Witness ==
    /\ xres.outcome = "fail"
    /\ xres.given.validBeforeOffender
    /\ xres.written = {}

C4_SpecialAlwaysNamed ==
    xres.given.special
        => /\ xres.outcome = "fail"
           /\ xres.msg = "unsupported special file"
           /\ xres.written = {}

\* C4: an archive with a character-device, block-device or FIFO member is
\* rejected and none of its members is extracted; the message is
\* "unsupported special file" exactly when the first offending member in
\* archive order is a special file whose own path stays inside the
\* install directory.
C4_SpecialRejected ==
    xres.given.special
        => /\ xres.outcome = "fail"
           /\ xres.written = {}
           /\ xres.msg = "unsupported special file"
                  <=> xres.given.firstOffence = "special"

\* a special file after a valid member: rejected, nothing written
C4_Witness ==
    /\ xres.given.special
    /\ xres.given.validBeforeOffender
    /\ xres.msg = "unsupported special file"
    /\ xres.written = {}


(***************************************************************************)
(* PrefixPreparer.prepare (prefix_preparer.py).                            *)
(***************************************************************************)
\* PROFILE_COMPONENTS
ProfileComponents ==
    [ minimal |-> <<"win11", "corefonts", "tahoma", "crypt32",
                    "d3dcompiler_47">>,
      standard |-> <<"win11", "corefonts", "tahoma", "crypt32",
                     "d3dcompiler_47", "vcrun2022">>,
      full |-> <<"win11", "corefonts", "tahoma", "crypt32",
                 "d3dcompiler_47", "vcrun2022", "dotnet48", "dxvk", "vkd3d",
                 "remove_mono">> ]

ProfileNames == DOMAIN ProfileComponents

\* profile = self.profile or "standard"
EffectiveProfile(p) == IF p = "" THEN "standard" ELSE p

\* self.PROFILE_COMPONENTS.get(previous_profile, []) if previous_profile else []
PreviousComponentsNone(mk) == <<>>
PreviousComponents(mk) ==
    IF mk # NoMarker /\ mk[1] # "" /\ mk[1] \in ProfileNames
    THEN ProfileComponents[mk[1]]
    ELSE <<>>

\* [c for c in target_components if c not in previous_components]
RECURSIVE MissingFrom(_, _, _)
MissingFrom(target, previous, i) ==
    IF i > Len(target) THEN <<>>
    ELSE IF \E j \in 1..Len(previous) : previous[j] = target[i]
         THEN MissingFrom(target, previous, i + 1)
         ELSE <<target[i]>> \o MissingFrom(target, previous, i + 1)

MissingComponentsAll(target, previous) == target
MissingComponents(target, previous) == MissingFrom(target, previous, 1)

PrepResult(o, st, h, mk) ==
    [outcome |-> o, steps |-> st, handed |-> h, marker |-> mk]

\* _set_windows_version_registry("win11"), _touch_marker (an OSError of
\* the write is logged and dropped), "complete"
FinishPrepare(mk, p, env, st, h) ==
    IF ~env.regwrite THEN PrepResult("error", st, h, mk)
    ELSE IF ~env.regedit THEN PrepResult("error", Append(st, "regedit"), h, mk)
    ELSE PrepResult("done", st \o <<"regedit", "marker">>, h,
                    IF env.markerWritable THEN <<p>> ELSE mk)

\* _install_winetricks_components(missing_components, console)
InstallWinetricksComponents(mk, p, env, st, missing) ==
    IF env.winetricks = "missing" THEN PrepResult("error", st, NotInvoked, mk)
    ELSE IF env.winetricks = "oserror"
         THEN PrepResult("error", st, <<missing>>, mk)
    ELSE IF env.winetricks = "nonzero"
         THEN PrepResult("error", Append(st, "winetricks"), <<missing>>, mk)
    ELSE FinishPrepare(mk, p, env, Append(st, "winetricks"), <<missing>>)

\* prepare from the early return on: lines 74-93
PrepareMissing(mk, p, env, missing) ==
    IF mk = <<p>> /\ missing = <<>>
    THEN PrepResult("noop", <<>>, NotInvoked, mk)
    ELSE IF ~env.winecfg
         THEN PrepResult("error", <<"winecfg">>, NotInvoked, mk)
    ELSE IF missing # <<>>
         THEN InstallWinetricksComponents(mk, p, env, <<"winecfg">>, missing)
    ELSE FinishPrepare(mk, p, env, <<"winecfg">>, NotInvoked)

\* prepare(console) on a prefix whose marker is mk, with self.profile = p
PrepareRun(mk, p, env) ==
    IF EffectiveProfile(p) \notin ProfileNames
    THEN PrepResult("exit", <<>>, NotInvoked, mk)
    ELSE PrepareMissing(mk, p, env,
             MissingComponents(ProfileComponents[EffectiveProfile(p)],
                               PreviousComponents(mk)))

Prepared(r, p, env) ==
    /\ marker' = r.marker
    /\ prep' = [ outcome |-> r.outcome, profile |-> p, before |-> marker,
                 env |-> env, steps |-> r.steps, handed |-> r.handed,
                 repeat |-> prep.outcome \in {"done", "noop"}
                            /\ prep.profile = p ]

Prepare(p, env) ==
    /\ Prepared(PrepareRun(marker, p, env), p, env)
    /\ UNCHANGED <<xvars, dvars, cvars>>

\* self.profile is one of the three names, an unknown name, or the empty
\* string that "self.profile or 'standard'" provides for.  env is what the
\* host does to the call: the exit of "wine winecfg /v", winetricks
\* (absent from PATH, not startable, exit 0 or not), the write of
\* set_winver.reg, the exit of "wine regedit /S", and whether the marker
\* file can be written.
NextPrepare ==
    \E p \in ProfileNames \cup {"", "bogus"},
       env \in [ winecfg : BOOLEAN,
                 winetricks : {"ok", "missing", "oserror", "nonzero"},
                 regwrite : BOOLEAN,
                 regedit : BOOLEAN,
                 markerWritable : BOOLEAN ] :
        Prepare(p, env)

SpecPrepare == InitIdle /\ [][NextPrepare]_vars


(***************************************************************************)
(* Properties of the preparation (SpecPrepare).                            *)
(***************************************************************************)
\* the last call followed, with nothing in between, a prepare of the same
\* valid profile that completed successfully
RepeatedPrepare == prep.repeat /\ prep.profile \in ProfileNames

NothingStarted ==
    /\ prep.steps = <<>>
    /\ prep.handed = NotInvoked
    /\ marker = prep.before

NotIn(a, b) ==
    SelectSeq(ProfileComponents[b],
              LAMBDA c : \A i \in 1..Len(ProfileComponents[a]) :
                             ProfileComponents[a][i] # c)

\* the marker before the call records a profile (only a successful prepare
\* of that profile writes it) and the call asks for a profile
UpgradeCall ==
    /\ prep.outcome # "none"
    /\ prep.before # NoMarker
    /\ prep.before[1] \in ProfileNames
    /\ prep.profile \in ProfileNames

\* the call reached the component installer with something to install
ReachedInstaller ==
    /\ prep.env.winecfg
    /\ prep.env.winetricks # "missing"
    /\ NotIn(prep.before[1], prep.profile) # <<>>

\* C6: when prepare(B) runs on a prefix whose marker records A, what is
\* handed to winetricks is exactly the components of B not in A, in B's
\* order (and winetricks is handed nothing when there are none); full
\* after minimal is handed vcrun2022, dotnet48, dxvk, vkd3d, remove_mono.
C6_MonotonicUpgrade ==
    UpgradeCall =>
        /\ prep.handed # NotInvoked
               => prep.handed = <<NotIn(prep.before[1], prep.profile)>>
        /\ ReachedInstaller <=> prep.handed # NotInvoked
        /\ (prep.before[1] = "minimal" /\ prep.profile = "full"
            /\ prep.handed # NotInvoked)
               => prep.handed = << <<"vcrun2022", "dotnet48", "dxvk", "vkd3d",
                                     "remove_mono">> >>

\* prepare(full) on a prefix marked minimal ran winetricks to the end
C6_Witness ==
    /\ UpgradeCall
    /\ prep.before = <<"minimal">>
    /\ prep.profile = "full"
    /\ prep.outcome = "done"
    /\ Len(prep.handed) = 1
    /\ Len(prep.handed[1]) = 5

\* every step of the call succeeded
EveryStepSucceeded ==
    /\ prep.env.winecfg
    /\ prep.handed # NotInvoked => prep.env.winetricks = "ok"
    /\ prep.env.regwrite
    /\ prep.env.regedit

\* the profile whose components the call prepares
TargetProfile == IF prep.profile = "" THEN "standard" ELSE prep.profile

\* C7: the marker changes only in a run whose every step succeeded, and
\* then holds the target profile name; a failed step or an invalid profile
\* leaves the marker as it was before the call.
C7_MarkerOnlyAfterSuccess ==
    /\ (prep.outcome # "none" /\ marker # prep.before)
           => /\ prep.outcome = "done"
              /\ EveryStepSucceeded
              /\ marker = <<TargetProfile>>
    /\ prep.outcome \in {"error", "exit"} => marker = prep.before


(***************************************************************************)
(* SmartDownloader.ensure_universal and _stream_to_file (downloader.py).   *)
(* A payload is the sequence of the chunks iter_content yields; a file is  *)
(* <<>> when absent and <<chunks>> when present (<< <<>> >> is an empty    *)
(* file).                                                                  *)
(***************************************************************************)
\* the payloads a server can hold; they share their first chunk
Payloads == { <<"a", "b">>, <<"a", "c">> }

\* hashlib.sha256 over the chunks fed to it; hexdigest() is lower case
Sha256(data) == [hex |-> data, upper |-> FALSE]

\* the same digest as a caller may write it, in upper case
Upper(c) == [c EXCEPT !.upper = TRUE]

\* str.lower() of a checksum
Lower(c) == [c EXCEPT !.upper = FALSE]

\* expected_sha256 as callers pass it
ExpectedChecksums ==
    {NoChecksum} \cup {<<Sha256(p)>> : p \in Payloads}
                 \cup {<<Upper(Sha256(<<"a", "b">>))>>}

\* one answer of the server to a GET: a 200 with the whole payload, a 206
\* with the payload from the requested offset, a 416, or no usable answer
\* (connection failure, error status); cut is how many chunks of the body
\* arrive before the transport fails.  A behaviour is the answers to the
\* first request and, after a 416, to the request that follows; a server
\* whose second answer is 416 too keeps answering 416.
ServerBehaviours ==
    LET served == [status : {"200", "206"}, cut : {0, 1, 2}]
                      \cup {[status |-> "error", cut |-> 0]}
    IN {<<r>> : r \in served}
           \cup {<<[status |-> "416", cut |-> 0], r>> :
                     r \in served \cup {[status |-> "416", cut |-> 0]}}

\* config.DEFAULT_UNIVERSAL_URL
DefaultUniversalUrl == "https://downloads.affinity.studio/Affinity%20x64.exe"

Resolved(url, source, tried) ==
    [err |-> "", url |-> url, source |-> source, tried |-> tried]

Unresolved(msg, tried) ==
    [err |-> msg, url |-> "", source |-> "", tried |-> tried]

\* _strategy_public: response.url when it ends in .exe, else the first
\* installer link of the page
StrategyPublic(page) ==
    IF page = "redirect" THEN <<"page-exe">>
    ELSE IF page = "link" THEN <<"page-link">>
    ELSE NoUrl

\* _strategy_authenticated and the end of _resolve_url (lines 133-139)
StrategyAuthenticated(web, tried) ==
    IF web.creds = "none" THEN Unresolved("non-interactive", tried)
    ELSE IF web.creds = "blank" THEN Unresolved("credentials required", tried)
    ELSE IF ~web.login THEN Unresolved("authentication failed", tried)
    ELSE IF StrategyPublic(web.publicAfterLogin) # NoUrl
         THEN Resolved(StrategyPublic(web.publicAfterLogin)[1],
                       "authenticated", tried)
    ELSE Unresolved("unable to locate", tried)

\* _resolve_url(provided_url, configured_url) with download_url.txt holding
\* saved and config.DEFAULT_UNIVERSAL_URL being default; tried lists the
\* sources looked at, in order
ResolveUrlConfigFirst(provided, configured, saved, default, web) ==
    IF configured # NoUrl
    THEN Resolved(configured[1], "config", <<"provided", "configured">>)
    ELSE IF provided # NoUrl
         THEN Resolved(provided[1], "provided", <<"provided">>)
    ELSE Unresolved("unable to locate", <<"provided", "configured">>)
ResolveUrlWith(provided, configured, saved, default, web) ==
    IF provided # NoUrl
    THEN Resolved(provided[1], "provided", <<"provided">>)
    ELSE IF configured # NoUrl
         THEN Resolved(configured[1], "config", <<"provided", "configured">>)
    ELSE IF saved # NoUrl /\ web.readable /\ saved[1] # ""
         THEN Resolved(saved[1], "config",
                       <<"provided", "configured", "saved">>)
    ELSE IF default # NoUrl
         THEN Resolved(default[1], "official",
                       <<"provided", "configured", "saved", "default">>)
    ELSE IF StrategyPublic(web.public) # NoUrl
         THEN Resolved(StrategyPublic(web.public)[1], "public",
                       <<"provided", "configured", "saved", "default",
                         "public">>)
    ELSE StrategyAuthenticated(web,
             <<"provided", "configured", "saved", "default", "public",
               "authenticated">>)

\* _resolve_url as ensure_universal runs it: the default URL of config.py
\* is not empty, so the scraping and login strategies are not reached
ResolveUrl(provided, configured, saved) ==
    ResolveUrlWith(provided, configured, saved, <<DefaultUniversalUrl>>,
                   [ readable |-> TRUE, public |-> "fail", creds |-> "none",
                     login |-> FALSE, publicAfterLogin |-> "fail" ])

\* _verify_checksum(path, expected): reads the file
VerifyChecksumExact(f, expected) == Sha256(f[1]) = expected
VerifyChecksum(f, expected) == Sha256(f[1]) = Lower(expected)

StreamResult(f, o, reqs) == [file |-> f, outcome |-> o, requests |-> reqs]

\* lines 277-293: open "ab" or "wb", write and hash each chunk received,
\* then _verify_checksum(path, expected, precomputed=hasher.hexdigest())
WriteBody(base, body, cut, expected, reqs) ==
    IF cut < Len(body)
    THEN StreamResult(<<base \o SubSeq(body, 1, cut)>>, "transport", reqs)
    ELSE IF expected # NoChecksum /\ Lower(Sha256(body)) # Lower(expected[1])
    THEN StreamResult(NoFile, "mismatch", reqs)
    ELSE StreamResult(<<base \o body>>, "ok", reqs)

RECURSIVE StreamFrom(_, _, _, _, _, _)
RECURSIVE Respond(_, _, _, _, _, _, _)
\* the GET and its status where a 416 answer does not unlink the destination
RespondKeepPartial(f, pos, expected, payload, resps, i, reqs) ==
    IF resps[i].status = "416"
    THEN IF i = Len(resps)
         THEN StreamResult(f, "recursion", reqs)
         ELSE StreamFrom(f, expected, payload, resps, i + 1, reqs)
    ELSE IF resps[i].status = "error" THEN StreamResult(f, "status", reqs)
    ELSE WriteBody(IF pos > 0 THEN f[1] ELSE <<>>,
                   IF resps[i].status = "206"
                   THEN SubSeq(payload, pos + 1, Len(payload)) ELSE payload,
                   resps[i].cut,
                   expected, reqs)

\* lines 257-264: the GET and its status
Respond(f, pos, expected, payload, resps, i, reqs) ==
    IF resps[i].status = "416"
    THEN IF i = Len(resps)
         THEN StreamResult(NoFile, "recursion", reqs)
         ELSE StreamFrom(NoFile, expected, payload, resps, i + 1, reqs)
    ELSE IF resps[i].status = "error" THEN StreamResult(f, "status", reqs)
    ELSE WriteBody(IF pos > 0 THEN f[1] ELSE <<>>,
                   IF resps[i].status = "206"
                   THEN SubSeq(payload, pos + 1, Len(payload)) ELSE payload,
                   resps[i].cut,
                   expected, reqs)

\* resume_pos = destination.stat().st_size if destination.exists() else 0
StreamFrom(f, expected, payload, resps, i, reqs) ==
    Respond(f, IF f # NoFile THEN Len(f[1]) ELSE 0, expected, payload, resps,
            i, Append(reqs, IF f # NoFile THEN Len(f[1]) ELSE 0))

\* _stream_to_file(url, destination, expected_sha256=...); requests holds
\* the Range start of every GET sent (0: no Range header)
StreamToFile(f, expected, payload, resps) ==
    StreamFrom(f, expected, payload, resps, 1, <<>>)

EnsureResult(f, uf, o, why, del, res, src, reqs) ==
    [ file |-> f, urlFile |-> uf, outcome |-> o, why |-> why,
      deleted |-> del, resolved |-> res, source |-> src, requests |-> reqs ]

\* lines 103-107 where the URL is persisted before the stream's outcome is
\* looked at
AfterStreamPersistFirst(r, uf, del, target, writable) ==
    EnsureResult(r.file,
                 IF target.source = "provided" /\ writable
                 THEN <<target.url>> ELSE uf,
                 IF r.outcome # "ok" THEN "raised" ELSE "returned",
                 r.outcome, del, TRUE, target.source, r.requests)

\* lines 103-107; _persist_download_url(url): an OSError is logged and
\* dropped
AfterStream(r, uf, del, target, writable) ==
    IF r.outcome # "ok"
    THEN EnsureResult(r.file, uf, "raised", r.outcome, del, TRUE,
                      target.source, r.requests)
    ELSE EnsureResult(r.file,
                      IF target.source = "provided" /\ writable
                      THEN <<target.url>>
                      ELSE uf,
                      "returned", "ok", del, TRUE, target.source, r.requests)

\* lines 98-107
Fetch(f, uf, del, provided, configured, expected, payload, resps, writable) ==
    AfterStream(StreamToFile(f, expected, payload, resps), uf, del,
                ResolveUrl(provided, configured, uf), writable)

Cached(f, uf) == EnsureResult(f, uf, "cached", "", FALSE, FALSE, "", <<>>)

\* ensure_universal(destination, download_url=, configured_url=,
\*                  expected_sha256=)
EnsureRun(f, uf, provided, configured, expected, payload, resps, writable) ==
    IF f # NoFile /\ Len(f[1]) > 0
    THEN IF expected # NoChecksum
         THEN IF VerifyChecksum(f, expected[1])
              THEN Cached(f, uf)
              ELSE Fetch(NoFile, uf, TRUE, provided, configured, expected,
                         payload, resps, writable)
         ELSE Cached(f, uf)
    ELSE Fetch(f, uf, FALSE, provided, configured, expected, payload, resps,
               writable)

\* final: the answer that ended the call; leftover: the destination holds
\* what a stream cut by the transport left there
Ensured(r, expected, payload, final) ==
    /\ dest' = r.file
    /\ urlFile' = r.urlFile
    /\ dl' = [ outcome |-> r.outcome, why |-> r.why, expected |-> expected,
               before |-> dest, deleted |-> r.deleted,
               resolved |-> r.resolved, source |-> r.source,
               requests |-> r.requests, payload |-> payload,
               final |-> final, wasLeftover |-> dl.leftover,
               leftover |-> \/ r.why = "transport"
                            \/ r.file = dest /\ dest # NoFile /\ dl.leftover ]

EnsureUniversal(provided, configured, expected, payload, resps, writable) ==
    /\ Ensured(EnsureRun(dest, urlFile, provided, configured, expected,
                         payload, resps, writable),
               expected, payload, resps[Len(resps)])
    /\ UNCHANGED <<xvars, pvars, cvars>>

\* u: download_url and configured_url as the caller passes them, and
\* whether download_url.txt can be written
NextDownload ==
    \E u \in { [provided |-> NoUrl, configured |-> NoUrl, writable |-> TRUE],
               [provided |-> NoUrl, configured |-> <<"u2">>, writable |-> TRUE],
               [provided |-> <<"u1">>, configured |-> NoUrl, writable |-> TRUE],
               [provided |-> <<"u1">>, configured |-> <<"u2">>,
                writable |-> FALSE] },
       expected \in ExpectedChecksums, payload \in Payloads,
       resps \in ServerBehaviours :
        EnsureUniversal(u.provided, u.configured, expected, payload, resps,
                        u.writable)

SpecDownload == InitIdle /\ [][NextDownload]_vars

\* _stream_to_file called once on a destination that is absent, empty, or
\* holds the first chunk a cut stream left
StreamResultOf(r) ==
    EnsureResult(r.file, urlFile, IF r.outcome = "ok" THEN "returned" ELSE "raised",
                 r.outcome, FALSE, FALSE, "", r.requests)

StreamCall(expected, payload, resps) ==
    /\ dl.outcome = "none"
    /\ Ensured(StreamResultOf(StreamToFile(dest, expected, payload, resps)),
               expected, payload, resps[Len(resps)])
    /\ UNCHANGED <<xvars, pvars, cvars>>

InitStream ==
    /\ fs = EmptyFs
    /\ wineDir = RefreshWinePaths(fs)
    /\ xres = NoCall
    /\ marker = NoMarker
    /\ prep = NoPrepare
    /\ dest \in { NoFile, << <<>> >>, << <<"a">> >> }
    /\ urlFile = NoUrl
    /\ dl = [NoDownload EXCEPT !.leftover = dest # NoFile]
    /\ call = NothingCalled

NextStream ==
    \E expected \in ExpectedChecksums, payload \in Payloads,
       resps \in ServerBehaviours :
        StreamCall(expected, payload, resps)

SpecStream == InitStream /\ [][NextStream]_vars


(***************************************************************************)
(* Properties of the download (SpecDownload, SpecStream).                  *)
(***************************************************************************)
\* the file's SHA-256 equals the checksum, compared as hex digests are
Matches(f, c) == f # NoFile /\ c.hex = f[1]

CalledWithChecksum == dl.outcome # "none" /\ dl.expected # NoChecksum

\* returned the cached file: no URL resolution, no request, file untouched
ReturnedCached ==
    /\ dl.outcome = "cached"
    /\ ~dl.resolved
    /\ dl.requests = <<>>
    /\ dest = dl.before

\* deleted the cached file and fetched from byte zero
DeletedAndRefetched ==
    /\ dl.deleted
    /\ dl.resolved
    /\ dl.requests # <<>>
    /\ \A i \in 1..Len(dl.requests) : dl.requests[i] = 0
    /\ dl.outcome \in {"returned", "raised"}
    /\ dl.outcome = "returned" => dest = <<dl.payload>>

VerifiedOrRefetched ==
    /\ Matches(dl.before, dl.expected[1]) => ReturnedCached
    /\ ~Matches(dl.before, dl.expected[1]) => DeletedAndRefetched

\* C8 as stated: with an expected checksum and an existing destination
\* file, a matching file is returned without URL resolution or request and
\* a differing one is deleted and fetched again from byte zero.
C8_ExistingFileVerified ==
    (CalledWithChecksum /\ dl.before # NoFile) => VerifiedOrRefetched

\* C8: with an expected checksum and an existing, non-empty destination
\* file, a matching file is returned without URL resolution or request and
\* a differing one is deleted and fetched again from byte zero.
C8_NonEmptyFileVerified ==
    (CalledWithChecksum /\ dl.before # NoFile /\ Len(dl.before[1]) > 0)
        => VerifiedOrRefetched

\* a cached payload that differs from the expected one was deleted and
\* the expected payload fetched in its place
C8_Witness ==
    /\ CalledWithChecksum
    /\ dl.before = << <<"a", "c">> >>
    /\ dl.expected = <<Upper(Sha256(<<"a", "b">>))>>
    /\ dl.deleted
    /\ dl.outcome = "returned"
    /\ dest = << <<"a", "b">> >>

\* the server answered the last request with the whole body it asked for
ServedWhole ==
    /\ dl.final.status \in {"200", "206"}
    /\ dl.final.cut >= Len(dl.payload)

\* C9: a _stream_to_file call given an expected checksum, once the server
\* has served the whole body, returns exactly when the file it leaves
\* matches the checksum; a payload with the expected checksum is then
\* downloaded and left at the destination, from byte zero or continuing a
\* partial file; a call that raises has deleted the file.
C9_ChecksumRoundTrip ==
    (CalledWithChecksum /\ ServedWhole) =>
        /\ dl.outcome = "returned" <=> Matches(dest, dl.expected[1])
        /\ dl.expected[1].hex = dl.payload
               => dl.outcome = "returned" /\ dest = <<dl.payload>>
        /\ dl.outcome = "raised" => dest = NoFile

\* C10: no ensure_universal call returns, as the cached payload and as it
\* is, a file that a stream cut by the transport left at the destination.
C10_PartialNeverReturned ==
    ~(dl.outcome = "cached" /\ dl.wasLeftover)

\* the call started on a partial payload of N > 0 bytes left by a cut stream
StartedOnPartial ==
    /\ dl.outcome # "none"
    /\ dl.wasLeftover
    /\ dl.before # NoFile
    /\ Len(dl.before[1]) > 0

\* C11: an acquisition that starts on a partial payload of N > 0 bytes
\* sends a range request starting at byte N and appends what it receives:
\* after a successful call the destination holds the complete remote
\* payload.
C11_ResumeFromPartial ==
    StartedOnPartial =>
        /\ dl.requests # <<>>
        /\ dl.requests[1] = Len(dl.before[1])
        /\ dl.outcome \in {"returned", "cached"} => dest = <<dl.payload>>

(***************************************************************************)
(* SmartDownloader._resolve_url called once (SpecResolve).  The persisted  *)
(* file is absent, blank or holds a URL; config.DEFAULT_UNIVERSAL_URL is   *)
(* the shipped value or, as the test at line 126 allows, empty.            *)
(***************************************************************************)
ResolveCall(provided, configured, default, web) ==
    /\ call.op = "none"
    /\ call' = [ op |-> "resolve", provided |-> provided,
                 configured |-> configured, saved |-> urlFile,
                 default |-> default, web |-> web,
                 result |-> ResolveUrlWith(provided, configured, urlFile,
                                           default, web) ]
    /\ UNCHANGED <<xvars, pvars, dvars>>

InitResolve ==
    /\ fs = EmptyFs
    /\ wineDir = RefreshWinePaths(fs)
    /\ xres = NoCall
    /\ marker = NoMarker
    /\ prep = NoPrepare
    /\ dest = NoFile
    /\ urlFile \in { NoUrl, <<"">>, <<"u3">> }
    /\ dl = NoDownload
    /\ call = NothingCalled

\* web is what _resolve_url finds beyond its arguments: whether
\* download_url.txt can be read; what the GET of the update page gives
\* before and after a login (no answer, a redirect to an .exe, a page with
\* or without an installer link); where the credentials come from (the
\* environment, the prompt, a prompt answered with nothing, or nowhere:
\* stdin is not a terminal); whether the login succeeds
NextResolve ==
    \E provided \in {NoUrl, <<"u1">>}, configured \in {NoUrl, <<"u2">>},
       default \in { NoUrl, <<DefaultUniversalUrl>> },
       web \in [ readable : BOOLEAN,
                 public : {"fail", "redirect", "link", "nolink"},
                 creds : {"env", "prompt", "blank", "none"},
                 login : BOOLEAN,
                 publicAfterLogin : {"fail", "redirect", "link", "nolink"} ] :
        ResolveCall(provided, configured, default, web)

SpecResolve == InitResolve /\ [][NextResolve]_vars

\* the six sources in the order of the claim
SourceOrder ==
    <<"provided", "configured", "saved", "default", "public",
      "authenticated">>

Scraped(page) == page \in {"redirect", "link"}

\* source k of the order has a URL to give
Yields(k) ==
    IF k = 1 THEN call.provided # NoUrl
    ELSE IF k = 2 THEN call.configured # NoUrl
    ELSE IF k = 3 THEN /\ call.saved # NoUrl
                       /\ call.web.readable
                       /\ call.saved # <<"">>
    ELSE IF k = 4 THEN call.default # NoUrl
    ELSE IF k = 5 THEN Scraped(call.web.public)
    ELSE /\ call.web.creds \in {"env", "prompt"}
         /\ call.web.login
         /\ Scraped(call.web.publicAfterLogin)

ScrapedUrl(page) == IF page = "redirect" THEN "page-exe" ELSE "page-link"

\* the URL source k gives
UrlOf(k) ==
    IF k = 1 THEN call.provided[1]
    ELSE IF k = 2 THEN call.configured[1]
    ELSE IF k = 3 THEN call.saved[1]
    ELSE IF k = 4 THEN call.default[1]
    ELSE IF k = 5 THEN ScrapedUrl(call.web.public)
    ELSE ScrapedUrl(call.web.publicAfterLogin)

FirstYields(k) == Yields(k) /\ \A j \in 1..(k - 1) : ~Yields(j)

\* the DownloadError messages of _resolve_url and _strategy_authenticated
RemediationMessages ==
    { "non-interactive", "credentials required", "authentication failed",
      "unable to locate" }

\* C12: _resolve_url returns the URL of the first source that has one, in
\* the order caller-supplied, configuration, persisted file, default,
\* update-page scrape, scrape after login, and looks at no source after
\* it; when no source has a URL it raises DownloadError with its
\* remediation message, having looked at all six, and no file is created.
C12_FirstAvailableSource ==
    call.op = "resolve" =>
        /\ \A k \in 1..6 :
               FirstYields(k)
                   => /\ call.result.err = ""
                      /\ call.result.url = UrlOf(k)
                      /\ call.result.tried = SubSeq(SourceOrder, 1, k)
        /\ (\A k \in 1..6 : ~Yields(k))
               => /\ call.result.err \in RemediationMessages
                  /\ call.result.tried = SourceOrder
                  /\ dest = NoFile

\* the persisted URL is returned, the default after it not looked at
C12_Witness ==
    /\ call.op = "resolve"
    /\ FirstYields(3)
    /\ Yields(4)
    /\ call.result.url = "u3"
    /\ call.result.tried = <<"provided", "configured", "saved">>

(***************************************************************************)
(* DistroDetector (distro_detector.py).  A string is a record of its parts *)
(* (what str.split on its separator gives, each part a sequence of         *)
(* syllables such as <<"open", "suse">>), the separator between the parts  *)
(* ("-", "_" or " ") and whether it has upper-case letters.  The string    *)
(* with no part stands for None.                                           *)
(***************************************************************************)
Text(parts, sep, upper) ==
    [ parts |-> parts, sep |-> IF Len(parts) <= 1 THEN "-" ELSE sep,
      upper |-> upper ]

Word(atoms) == Text(<<atoms>>, "-", FALSE)

NoneId == Text(<<>>, "-", FALSE)

\* a field of the detector that was never assigned
NoneValue == "None"

RECURSIVE Flat(_)
\* the syllables of a string, separators dropped: s.replace(sep, '')
Flat(parts) ==
    IF parts = <<>> THEN <<>> ELSE parts[1] \o Flat(SubSeq(parts, 2, Len(parts)))

\* "not s": None or the empty string
Falsy(s) == Len(s.parts) <= 1 /\ Flat(s.parts) = <<>>

\* [s[:-5]] if s.endswith('linux') and len(s) > len('linux'), else []
WithoutLinux(s) ==
    IF /\ s.parts # <<>>
       /\ s.parts[Len(s.parts)] # <<>>
       /\ s.parts[Len(s.parts)][Len(s.parts[Len(s.parts)])] = "linux"
       /\ s # Word(<<"linux">>)
    THEN <<Text(SubSeq(s.parts, 1, Len(s.parts) - 1)
                    \o <<SubSeq(s.parts[Len(s.parts)], 1,
                                Len(s.parts[Len(s.parts)]) - 1)>>,
                s.sep, s.upper)>>
    ELSE <<>>

\* DISTRO_MAPPING
DistroMapping ==
    LET Of(ids, family, pm) == { [id |-> i, family |-> family, pm |-> pm] : i \in ids }
    IN Of({ Word(<<"ubuntu">>), Word(<<"debian">>), Word(<<"linux", "mint">>),
            Word(<<"elementary">>), Word(<<"pop">>), Word(<<"pop", "os">>),
            Word(<<"deepin">>) }, "debian", "apt")
       \cup Of({ Word(<<"fedora">>), Word(<<"rhel">>), Word(<<"centos">>),
                 Word(<<"rocky">>), Word(<<"alma", "linux">>) }, "fedora", "dnf")
       \cup Of({ Word(<<"arch">>), Word(<<"manjaro">>), Word(<<"garuda">>),
                 Word(<<"endeavour", "os">>), Word(<<"cachy", "os">>),
                 Word(<<"artix">>) }, "arch", "pacman")
       \cup Of({ Word(<<"open", "suse">>), Word(<<"suse">>),
                 Text(<< <<"open", "suse">>, <<"leap">> >>, "-", FALSE),
                 Text(<< <<"open", "suse">>, <<"tumbleweed">> >>, "-", FALSE) },
               "suse", "zypper")

RECURSIVE FirstMapped(_)
\* the first element of a list that is in DISTRO_MAPPING, as <<element>>
FirstMapped(list) ==
    IF list = <<>> THEN <<>>
    ELSE IF \E d \in DistroMapping : d.id = list[1] THEN <<list[1]>>
    ELSE FirstMapped(SubSeq(list, 2, Len(list)))

RECURSIVE FirstNeedle(_, _, _)
\* the first row <<needle, value>> of a heuristics table whose needle is in
\* a string without separators, as <<value>>
FirstNeedle(table, atoms, i) ==
    IF i > Len(table) THEN <<>>
    ELSE IF \E j \in 1..(Len(atoms) - Len(table[i][1]) + 1) :
                SubSeq(atoms, j, j + Len(table[i][1]) - 1) = table[i][1]
    THEN <<table[i][2]>>
    ELSE FirstNeedle(table, atoms, i + 1)

\* _normalize_distro_id(raw_id)
NormalizeDistroId(raw) ==
    LET \* lower(), '_' and whitespace to '-', '-+' to '-', strip('-')
        n == Text(SelectSeq(raw.parts, LAMBDA p : p # <<>>), "-", FALSE)
        candidates == <<n, Word(Flat(n.parts)), Word(n.parts[1])>>
                          \o WithoutLinux(n)
        heuristics ==
            << <<<<"arch">>, <<"arch">>>>, <<<<"manjaro">>, <<"manjaro">>>>,
               <<<<"garuda">>, <<"garuda">>>>,
               <<<<"endeavour", "os">>, <<"endeavour", "os">>>>,
               <<<<"cachy", "os">>, <<"cachy", "os">>>>,
               <<<<"artix">>, <<"artix">>>>, <<<<"ubuntu">>, <<"ubuntu">>>>,
               <<<<"debian">>, <<"debian">>>>,
               <<<<"mint">>, <<"linux", "mint">>>>,
               <<<<"elementary">>, <<"elementary">>>>, <<<<"pop">>, <<"pop">>>>,
               <<<<"fedora">>, <<"fedora">>>>, <<<<"centos">>, <<"centos">>>>,
               <<<<"rhel">>, <<"rhel">>>>, <<<<"rocky">>, <<"rocky">>>>,
               <<<<"alma">>, <<"alma", "linux">>>>,
               <<<<"open", "suse">>, <<"open", "suse">>>>,
               <<<<"suse">>, <<"suse">>>> >>
    IN IF Falsy(raw) \/ n.parts = <<>> THEN NoneId
       ELSE IF FirstMapped(candidates) # <<>> THEN FirstMapped(candidates)[1]
       ELSE IF FirstNeedle(heuristics, Flat(n.parts), 1) # <<>>
       THEN Word(FirstNeedle(heuristics, Flat(n.parts), 1)[1])
       ELSE n

\* _candidate_ids(distro_id)
CandidateIds(s) ==
    LET parts == SelectSeq(s.parts, LAMBDA p : p # <<>>)
        split == [i \in 1..Len(parts) |-> Word(parts[i])] \o <<Word(Flat(s.parts))>>
        RECURSIVE Dedupe(_, _)
        \* lines 229-237: lower-cased, duplicates removed, order kept
        Dedupe(list, seen) ==
            IF list = <<>> THEN <<>>
            ELSE IF Text(list[1].parts, list[1].sep, FALSE) \in seen
            THEN Dedupe(Tail(list), seen)
            ELSE <<Text(list[1].parts, list[1].sep, FALSE)>>
                     \o Dedupe(Tail(list),
                               seen \cup {Text(list[1].parts, list[1].sep, FALSE)})
    IN IF Falsy(s) THEN <<>>
       ELSE Dedupe(<<s>>
                     \o (IF Len(s.parts) > 1 /\ s.sep = "-" THEN split ELSE <<>>)
                     \o (IF Len(s.parts) > 1 /\ s.sep = " " THEN split ELSE <<>>)
                     \o WithoutLinux(s),
                   {})

RECURSIVE FirstInPath(_, _)
\* the first element of a list that exists (shutil.which, Path.exists), as
\* <<element>>
FirstInPath(list, path) ==
    IF list = <<>> THEN <<>>
    ELSE IF list[1] \in path THEN <<list[1]>>
    ELSE FirstInPath(SubSeq(list, 2, Len(list)), path)

\* _guess_package_manager
GuessPackageManager(d, path) ==
    [d EXCEPT !.pm =
        IF FirstInPath(<<"apt", "dnf", "pacman", "zypper">>, path) # <<>>
        THEN FirstInPath(<<"apt", "dnf", "pacman", "zypper">>, path)[1]
        ELSE IF d.pm = NoneValue THEN "apt" ELSE d.pm]

\* _map_distro
MapDistro(d, path) ==
    LET heuristics ==
            << <<<<"arch">>, <<"arch", "pacman">>>>,
               <<<<"manjaro">>, <<"arch", "pacman">>>>,
               <<<<"garuda">>, <<"arch", "pacman">>>>,
               <<<<"debian">>, <<"debian", "apt">>>>,
               <<<<"ubuntu">>, <<"debian", "apt">>>>,
               <<<<"mint">>, <<"debian", "apt">>>>,
               <<<<"pop">>, <<"debian", "apt">>>>,
               <<<<"fedora">>, <<"fedora", "dnf">>>>,
               <<<<"rhel">>, <<"fedora", "dnf">>>>,
               <<<<"centos">>, <<"fedora", "dnf">>>>,
               <<<<"rocky">>, <<"fedora", "dnf">>>>,
               <<<<"alma">>, <<"fedora", "dnf">>>>,
               <<<<"suse">>, <<"suse", "zypper">>>>,
               <<<<"open", "suse">>, <<"suse", "zypper">>>> >>
        Row(id) == CHOOSE r \in DistroMapping : r.id = id
    IN IF Falsy(d.id)
       THEN GuessPackageManager([d EXCEPT !.family = "unknown"], path)
       ELSE IF FirstMapped(CandidateIds(d.id)) # <<>>
       THEN [d EXCEPT !.id = FirstMapped(CandidateIds(d.id))[1],
                      !.family = Row(FirstMapped(CandidateIds(d.id))[1]).family,
                      !.pm = Row(FirstMapped(CandidateIds(d.id))[1]).pm]
       ELSE IF FirstNeedle(heuristics, Flat(d.id.parts), 1) # <<>>
       THEN [d EXCEPT
                !.family = FirstNeedle(heuristics, Flat(d.id.parts), 1)[1][1],
                !.pm = FirstNeedle(heuristics, Flat(d.id.parts), 1)[1][2]]
       ELSE GuessPackageManager([d EXCEPT !.family = "unknown"], path)

\* _parse_os_release: <<whether it returned True, the detector after it>>.
\* host.osr.id is what the ID regex captured (NoneId: no match),
\* host.osr.like the words of ID_LIKE.
ParseOsRelease(d, host) ==
    LET id == NormalizeDistroId(host.osr.id)
        likes == FirstMapped([i \in 1..Len(host.osr.like) |->
                                 NormalizeDistroId(host.osr.like[i])])
    IN IF host.osr.state = "read" /\ host.osr.id # NoneId
       THEN <<TRUE,
              MapDistro(
                  [d EXCEPT
                      !.id = IF FirstMapped(<<id>>) = <<>> /\ likes # <<>>
                             THEN likes[1] ELSE id,
                      !.version = IF host.osr.version THEN "1" ELSE "unknown",
                      !.name = IF host.osr.name
                               THEN Text(<<<<"name">>>>, "-", TRUE) ELSE id],
                  host.path)>>
       ELSE <<FALSE, d>>

\* _parse_lsb_release; host.lsb.id is what follows 'Distributor ID:'
ParseLsbRelease(d, host) ==
    IF host.lsb.state = "ok" /\ host.lsb.id # NoneId
    THEN <<TRUE, MapDistro([d EXCEPT
                               !.id = Text(host.lsb.id.parts, host.lsb.id.sep,
                                           FALSE),
                               !.name = host.lsb.id], host.path)>>
    ELSE <<FALSE, d>>

\* _parse_distro_files
ParseDistroFiles(d, host) ==
    LET found == FirstInPath(<<"fedora", "arch", "rhel", "linux">>,
                             host.files \cup (IF host.osr.state = "absent"
                                              THEN {} ELSE {"linux"}))
    IN IF found = <<>> THEN d
       ELSE MapDistro([d EXCEPT !.id = Word(<<found[1]>>),
                                !.name = Text(<<<<found[1]>>>>, "-", TRUE)],
                      host.path)

\* DistroDetector(): __init__ and _detect
DistroDetector(host) ==
    LET undetected == [ id |-> NoneId, name |-> NoneId, version |-> NoneValue,
                        family |-> NoneValue, pm |-> NoneValue ]
        osr == ParseOsRelease(undetected, host)
        lsb == ParseLsbRelease(osr[2], host)
    IN IF osr[1] THEN osr[2]
       ELSE IF lsb[1] THEN lsb[2]
       ELSE ParseDistroFiles(lsb[2], host)

\* get_distro_info without the 'unknown' defaults
GetDistroInfoAsStored(d) ==
    [ id |-> d.id, name |-> d.name, version |-> d.version,
      family |-> d.family, package_manager |-> d.pm ]

\* get_distro_info
GetDistroInfo(d) ==
    [ id |-> d.id, name |-> d.name, version |-> d.version,
      family |-> IF d.family # NoneValue THEN d.family ELSE "unknown",
      package_manager |-> IF d.pm # NoneValue THEN d.pm ELSE "unknown" ]

(***************************************************************************)
(* The hosts a detector is constructed on: /etc/os-release (absent,        *)
(* unreadable, or read with what its regexes capture), what lsb_release    *)
(* does, the release files that exist and the commands in PATH.            *)
(***************************************************************************)
DetectorHosts ==
    LET ids == { NoneId, Word(<<"ubuntu">>), Word(<<"arch", "linux">>),
                 Word(<<"foo">>),
                 Text(<< <<"pop">>, <<"os">> >>, "_", TRUE),
                 Text(<< <<"open", "suse">>, <<"leap">> >>, "-", FALSE),
                 Text(<< <<"my">>, <<"fedora">> >>, "-", FALSE),
                 Text(<< <<>>, <<>> >>, "-", FALSE),
                 Text(<< <<"ubuntu">>, <<"id">>, <<"like=">> >>, " ", FALSE) }
        likes == { <<>>, <<Word(<<"foo">>)>>,
                   <<Word(<<"foo">>), Word(<<"arch">>)>> }
    IN [ osr : { [state |-> s, id |-> NoneId, like |-> <<>>, name |-> FALSE,
                  version |-> FALSE] : s \in {"absent", "unreadable"} }
               \cup { [state |-> "read", id |-> i, like |-> l, name |-> b,
                       version |-> b] : i \in ids, l \in likes, b \in BOOLEAN },
         lsb : { [state |-> s, id |-> NoneId] :
                     s \in {"absent", "timeout", "fails"} }
               \cup { [state |-> "ok", id |-> i] :
                          i \in { NoneId, Word(<<>>),
                                  Text(<<<<"ubuntu">>>>, "-", TRUE),
                                  Text(<< <<"linux">>, <<"mint">> >>, " ", TRUE) } },
         files : { {}, {"fedora"}, {"rhel"}, {"arch", "rhel"} },
         path : { {}, {"apt"}, {"dnf"}, {"pacman", "zypper"} } ]

\* DistroDetector().get_distro_info() on a host
DetectCall(host) ==
    /\ call.op = "none"
    /\ call' = [ op |-> "detect", host |-> host,
                 info |-> GetDistroInfo(DistroDetector(host)) ]
    /\ UNCHANGED <<xvars, pvars, dvars>>

(***************************************************************************)
(* PreflightChecker (preflight.py).  Sizes are in GiB.  A host is what the *)
(* checks find: the outcome of shutil.disk_usage on the cache directory,   *)
(* of its mkdir, os.access and stat, AFFINITY_CLI_WINE, the commands in    *)
(* PATH, what lspci prints and what the distro detector reads.             *)
(***************************************************************************)
MaxFreeGiB == 6

\* MIN_FREE_DEFAULT, in GiB
MinFreeDefault == 5

Issue(level, message) == [level |-> level, message |-> message]

\* _check_disk_space
CheckDiskSpace(host, minFree) ==
    IF host.usage = "ok"
    THEN IF host.free < minFree
         THEN <<Issue("error", "Not enough free space")>>
         ELSE <<>>
    ELSE IF host.usage = "FileNotFoundError"
    THEN <<Issue("error", "Path does not exist")>>
    ELSE <<Issue("warning", "Could not read disk usage")>>

\* _check_cache_dir
CheckCacheDir(host) ==
    IF ~host.mkdir
    THEN <<Issue("error", "Cache directory is not writable: mkdir")>>
    ELSE (IF ~host.writable
          THEN <<Issue("error", "Cache directory is not writable")>>
          ELSE <<>>)
         \o (IF host.mode \notin {"0o700", "OSError"}
             THEN <<Issue("warning", "Cache directory permissions")>>
             ELSE <<>>)

\* _check_wine_proton
CheckWineProton(host) ==
    IF FirstInPath(SelectSeq(<<host.preferred, "wine64", "wine", "proton",
                               "proton-run">>, LAMBDA c : c # ""),
                   host.distro.path) # <<>>
    THEN <<>>
    ELSE <<Issue("error", "Wine/Proton runtime not found in PATH")>>

\* _detect_gpu_vendor: the vendor, or NoneValue
DetectGpuVendor(host) ==
    IF "lspci" \notin host.distro.path THEN NoneValue
    ELSE IF host.lspci \in {"nvidia", "amd", "intel"} THEN host.lspci
    ELSE NoneValue

\* _check_gpu_vulkan
CheckGpuVulkan(host) ==
    IF "vulkaninfo" \notin host.distro.path
    THEN <<Issue("warning", "Vulkan utilities not found")>>
    ELSE <<>>

\* _check_distro
CheckDistro(host) ==
    LET pm == GetDistroInfo(DistroDetector(host.distro)).package_manager
    IN IF pm = "unknown"
       THEN <<Issue("warning", "Could not determine package manager")>>
       ELSE IF pm \notin host.distro.path
       THEN <<Issue("warning", "Package manager not found in PATH")>>
       ELSE <<>>

\* any(i.level == "error" for i in issues)
HasError(issues) == \E i \in 1..Len(issues) : issues[i].level = "error"

PreflightReport(issues, ran) ==
    [ ok |-> ~HasError(issues), issues |-> issues, ran |-> ran ]

\* the five checks in the order of run
PreflightChecks == <<"disk", "cache", "runtime", "vulkan", "distro">>

\* what one check returns
CheckOf(name, host, minFree) ==
    IF name = "disk" THEN CheckDiskSpace(host, minFree)
    ELSE IF name = "cache" THEN CheckCacheDir(host)
    ELSE IF name = "runtime" THEN CheckWineProton(host)
    ELSE IF name = "vulkan" THEN CheckGpuVulkan(host)
    ELSE CheckDistro(host)

\* run that stops at the first check that reports an error
PreflightRunShortCircuit(host, minFree) ==
    PreflightReport(
        IF HasError(CheckDiskSpace(host, minFree))
        THEN CheckDiskSpace(host, minFree)
        ELSE IF HasError(CheckCacheDir(host))
        THEN CheckDiskSpace(host, minFree) \o CheckCacheDir(host)
        ELSE CheckDiskSpace(host, minFree) \o CheckCacheDir(host)
                 \o CheckWineProton(host) \o CheckGpuVulkan(host)
                 \o CheckDistro(host),
        PreflightChecks)

\* PreflightChecker.run
PreflightRun(host, minFree) ==
    PreflightReport(CheckDiskSpace(host, minFree) \o CheckCacheDir(host)
                        \o CheckWineProton(host) \o CheckGpuVulkan(host)
                        \o CheckDistro(host),
                    PreflightChecks)

PreflightHosts ==
    { [ usage |-> d[1], free |-> d[2], mkdir |-> m[1], writable |-> m[2],
        mode |-> m[3], preferred |-> e, lspci |-> g,
        distro |-> [h EXCEPT !.path = p] ] :
        d \in { <<"ok", f>> : f \in 0..MaxFreeGiB }
              \cup { <<u, 0>> : u \in {"FileNotFoundError", "PermissionError",
                                       "OSError"} },
        m \in { <<FALSE, FALSE, "OSError">>, <<TRUE, FALSE, "0o755">>,
                <<TRUE, TRUE, "0o755">>, <<TRUE, TRUE, "0o700">>,
                <<TRUE, TRUE, "OSError">> },
        e \in {"", "mywine"}, g \in {"nvidia", "timeout"},
        h \in { h \in DetectorHosts :
                  /\ \/ h.osr.state = "absent"
                     \/ /\ h.osr.name /\ h.osr.like = <<>>
                        /\ h.osr.id \in {Word(<<"ubuntu">>), Word(<<"foo">>)}
                  /\ h.lsb.state = "absent"
                  /\ h.files = {} /\ h.path = {} },
        p \in { {}, {"vulkaninfo"}, {"wine", "apt"}, {"mywine", "dnf", "lspci"},
                {"wine64", "vulkaninfo", "apt", "lspci"},
                {"proton-run", "vulkaninfo", "pacman"} } }

\* PreflightChecker(min_free_bytes=minFree).run() on a host
PreflightCall(host, minFree) ==
    /\ call.op = "none"
    /\ call' = [ op |-> "preflight", host |-> host, minFree |-> minFree,
                 vendor |-> DetectGpuVendor(host),
                 report |-> PreflightRun(host, minFree) ]
    /\ UNCHANGED <<xvars, pvars, dvars>>

NextHost ==
    \/ call.op = "none" /\ \E host \in DetectorHosts : DetectCall(host)
    \/ /\ call.op = "none"
       /\ \E host \in PreflightHosts, minFree \in {1, MinFreeDefault} :
              PreflightCall(host, minFree)

SpecHost == InitIdle /\ [][NextHost]_vars

\* the messages each check can report
MessagesOf(name) ==
    IF name = "disk"
    THEN {"Not enough free space", "Path does not exist",
          "Could not read disk usage"}
    ELSE IF name = "cache"
    THEN {"Cache directory is not writable: mkdir",
          "Cache directory is not writable", "Cache directory permissions"}
    ELSE IF name = "runtime" THEN {"Wine/Proton runtime not found in PATH"}
    ELSE IF name = "vulkan" THEN {"Vulkan utilities not found"}
    ELSE {"Could not determine package manager",
          "Package manager not found in PATH"}

\* the issues of a report that come from one check
IssuesFrom(name) ==
    SelectSeq(call.report.issues, LAMBDA i : i.message \in MessagesOf(name))

\* C14: PreflightChecker.run runs all five checks, its report has every issue
\* each check finds on the host whatever the other checks found, and ok is
\* true exactly when no issue of the report has level 'error' (so warnings
\* alone leave ok true).
C14_AllChecksAggregated ==
    call.op = "preflight" =>
        /\ call.report.ran = PreflightChecks
        /\ \A k \in 1..Len(PreflightChecks) :
               IssuesFrom(PreflightChecks[k])
                   = CheckOf(PreflightChecks[k], call.host, call.minFree)
        /\ call.report.ok <=> "error" \notin { call.report.issues[i].level :
                                           i \in 1..Len(call.report.issues) }

\* a report that is not ok has the errors of three checks next to the
\* warnings of the other two
C14_Witness ==
    /\ call.op = "preflight"
    /\ ~call.report.ok
    /\ IssuesFrom("disk") # <<>> /\ HasError(IssuesFrom("disk"))
    /\ HasError(IssuesFrom("cache")) /\ HasError(IssuesFrom("runtime"))
    /\ IssuesFrom("vulkan") # <<>> /\ IssuesFrom("distro") # <<>>

\* C15: the disk-space check reports an error, and the report is not ok,
\* whenever the free space is below the minimum and whenever the disk usage
\* of the cache path cannot be read, whatever the failure.
C15_DiskErrorOnAnyStatFailure ==
    (/\ call.op = "preflight"
     /\ \/ call.host.usage # "ok"
        \/ call.host.free < call.minFree)
        => /\ HasError(IssuesFrom("disk"))
           /\ ~call.report.ok


\* C18: on every host (os-release present, absent, unreadable or without an
\* ID line; lsb_release present, absent, failing or timing out; no release
\* file at all) constructing the detector and calling get_distro_info
\* returns, with a family among debian, fedora, arch, suse, unknown and a
\* package manager that is not None.
C18_DetectionTotal ==
    call.op = "detect" =>
        /\ call.info.family \in {"debian", "fedora", "arch", "suse", "unknown"}
        /\ call.info.package_manager
               \in {"apt", "dnf", "yum", "pacman", "zypper", "aptitude", "unknown"}

\* a host without os-release, lsb_release and release files: nothing was
\* detected and both values are 'unknown'
C18_Witness ==
    /\ call.op = "detect"
    /\ call.host.osr.state = "absent"
    /\ call.host.lsb.state # "ok"
    /\ call.host.files = {}
    /\ call.info.family = "unknown"
    /\ call.info.package_manager = "unknown"
    /\ call.info.id = NoneId


(***************************************************************************)
(* commands/install.py: run_install, the installation driver.  A run is    *)
(* the sequence of the calls it makes, as far as the first hard stop.      *)
(***************************************************************************)

\* the hosts and arguments a run is started with: what each step will find
\* (deps: Step 2, wine: Step 3, prefix: Step 4, winePath: the constructor
\* of AffinityInstaller, searchDir and detected: Step 6, result: Step 7)
InstallEnvs ==
    [ deps : {"skipped", "complete", "declined", "installed", "failed"},
      wine : {"present", "downloaded", "failed"},
      prefix : {"present", "created", "failed"},
      winePath : BOOLEAN, searchDir : BOOLEAN,
      products : {<<>>, <<"photo">>, <<"publisher", "photo">>},
      detected : {<<>>, <<"photo">>, <<"designer", "photo">>,
                  <<"photo", "designer", "publisher">>},
      result : { [p \in {"photo", "designer", "publisher"} |-> r] :
                     r \in {"ok", "failed"} }
               \cup {[photo |-> "ok", designer |-> "timeout",
                      publisher |-> "failed"]} ]

\* the products install_affinity_product is called for (lines 213-216)
ProductsToInstall(env) ==
    IF env.products # <<>>
    THEN SelectSeq(env.products,
                   LAMBDA p : \E i \in 1..Len(env.detected) : env.detected[i] = p)
    ELSE env.detected

\* the products of Step 7 whose installation succeeded (lines 225-245)
InstalledProducts(env) ==
    SelectSeq(ProductsToInstall(env), LAMBDA p : env.result[p] = "ok")

RunInstallStepsIntegrateAll(env) ==
    LET S(name) == <<[step |-> name, product |-> "-"]>>
        P(name, ps) == [i \in 1..Len(ps) |-> [step |-> name, product |-> ps[i]]]
    IN  S("get_distro_info")
        \o (IF env.deps \in {"installed", "failed"}
            THEN S("install_dependencies") ELSE <<>>)
        \o IF env.deps = "failed" THEN <<>> ELSE
           (IF env.wine = "present" THEN <<>> ELSE S("download_wine"))
        \o IF env.wine = "failed" THEN <<>> ELSE
           (IF env.prefix = "present" THEN <<>> ELSE S("create_prefix"))
        \o IF env.prefix = "failed" THEN <<>> ELSE
           S("configure_prefix") \o S("install_dotnet") \o S("install_fonts")
        \o IF ~env.searchDir \/ ~env.winePath THEN <<>> ELSE
           S("detect_installer")
        \o P("install_affinity_product", ProductsToInstall(env))
        \o P("integrate_product", ProductsToInstall(env))

\* the calls of one run, in order; each hard stop of the code ends the
\* sequence (return at lines 85, 116, 141, 198, 206, 220, 249; the
\* RuntimeError of AffinityInstaller() is caught at line 281)
RunInstallSteps(env) ==
    LET S(name) == <<[step |-> name, product |-> "-"]>>
        P(name, ps) == [i \in 1..Len(ps) |-> [step |-> name, product |-> ps[i]]]
    IN  S("get_distro_info")
        \o (IF env.deps \in {"installed", "failed"}
            THEN S("install_dependencies") ELSE <<>>)
        \o IF env.deps = "failed" THEN <<>> ELSE
           (IF env.wine = "present" THEN <<>> ELSE S("download_wine"))
        \o IF env.wine = "failed" THEN <<>> ELSE
           (IF env.prefix = "present" THEN <<>> ELSE S("create_prefix"))
        \o IF env.prefix = "failed" THEN <<>> ELSE
           S("configure_prefix") \o S("install_dotnet") \o S("install_fonts")
        \o IF ~env.searchDir \/ ~env.winePath THEN <<>> ELSE
           S("detect_installer")
        \o P("install_affinity_product", ProductsToInstall(env))
        \o P("integrate_product", InstalledProducts(env))

\* run_install on a host
RunInstall(env, host) ==
    /\ call.op = "none"
    /\ call' = [ op |-> "install", env |-> env, host |-> host,
                 steps |-> RunInstallSteps(env) ]
    /\ UNCHANGED <<xvars, pvars, dvars>>

\* the hosts the driver is started on: enough free space or none, the
\* runtime and the Vulkan tools on the PATH or not
InstallHosts ==
    { h \in PreflightHosts :
        /\ h.usage = "ok" /\ h.free \in {0, MaxFreeGiB}
        /\ h.mkdir /\ h.writable /\ h.mode = "0o755"
        /\ h.preferred = "" /\ h.lspci = "nvidia"
        /\ h.distro.osr.state = "absent"
        /\ h.distro.path \in {{}, {"wine64", "vulkaninfo", "apt", "lspci"}} }

\* a run is started once
NextInstall ==
    /\ call.op = "none"
    /\ \E env \in InstallEnvs, host \in InstallHosts : RunInstall(env, host)

SpecInstall == InitIdle /\ [][NextInstall]_vars

\* the steps of the run that acquire, prepare or execute
Committed ==
    { call.steps[i].step : i \in 1..Len(call.steps) }
        \cap {"download_wine", "create_prefix", "configure_prefix",
              "install_dotnet", "install_fonts", "install_affinity_product"}

\* C13: a run on a host whose preflight report is not ok downloads nothing,
\* prepares no prefix and starts no installer.
C13_PreflightGate ==
    (call.op = "install" /\ ~PreflightRun(call.host, MinFreeDefault).ok)
        => Committed = {}


(***************************************************************************)
(* The child processes of prefix preparation and installer execution:      *)
(* PrefixPreparer._run (winecfg, regedit), _install_winetricks_components  *)
(* and AffinityInstaller.install_affinity_product.  A stage starts its     *)
(* child and waits for it; a child exits, cannot be started, or never      *)
(* exits.                                                                  *)
(***************************************************************************)

\* a stage is entered: ready is false when the stage returns before it
\* starts a child (shutil.which finds no winetricks; the installer file or
\* the prefix is missing), installed tells whether the product's files are
\* in the prefix already
StartStage(stage, children, ready, installed) ==
    /\ call.op = "none"
    /\ call' = [ op |-> "child", stage |-> stage, children |-> children,
                 installed |-> installed, at |-> 1,
                 state |-> IF ready THEN "waiting" ELSE "returned",
                 result |-> IF ready THEN "-"
                            ELSE IF stage = "install_affinity_product"
                                 THEN "(False, message)"
                                 ELSE "PrefixPrepareError" ]
    /\ UNCHANGED <<xvars, pvars, dvars>>

\* the stage's wait for its child ends: subprocess.run(check=True) and
\* Popen followed by process.wait() are called without a timeout and
\* return only when the child exits; subprocess.run(timeout=900) raises
\* TimeoutExpired for a child that is still running
AwaitChild ==
    /\ call.op = "child" /\ call.state = "waiting"
    /\ LET c == call.children[call.at]
           Return(r) == call' = [call EXCEPT !.state = "returned", !.result = r]
       IN  CASE call.stage = "_run" ->
                  /\ c # "never exits"
                  /\ Return(IF c = "exits 0" THEN "None"
                            ELSE IF c = "exits nonzero" THEN "PrefixPrepareError"
                            ELSE "OSError")
             [] call.stage = "_install_winetricks_components" ->
                  /\ c # "never exits"
                  /\ Return(IF c = "exits 0" THEN "None" ELSE "PrefixPrepareError")
             [] call.stage = "install_affinity_product" ->
                  IF c = "never exits" THEN Return("(False, timed out)")
                  ELSE IF c = "cannot start" THEN Return("(False, error)")
                  ELSE IF call.installed \/ c = "installs"
                       THEN call' = [call EXCEPT !.installed = TRUE,
                                                 !.state = "returned",
                                                 !.result = "(True, installed)"]
                  ELSE IF call.at = 3
                       THEN Return("(False, verification failed)")
                  ELSE call' = [call EXCEPT !.at = @ + 1]
    /\ UNCHANGED <<xvars, pvars, dvars>>

NextChild ==
    \/ /\ call.op = "none"
       /\ \/ \E c \in {"exits 0", "exits nonzero", "never exits", "cannot start"},
               ready \in BOOLEAN :
                 \/ StartStage("_run", <<c>>, TRUE, FALSE)
                 \/ StartStage("_install_winetricks_components", <<c>>, ready, FALSE)
          \/ \E cs \in [1..3 -> {"installs", "rejects", "never exits", "cannot start"}],
               ready \in BOOLEAN, installed \in BOOLEAN :
                 StartStage("install_affinity_product", cs, ready, installed)
    \/ AwaitChild

\* a wait that can end does end
SpecChild == InitIdle /\ [][NextChild]_vars /\ WF_vars(AwaitChild)

\* C17: a stage that waits for a child which never exits returns a failure
\* to its caller.
C17_ChildrenBounded ==
    (/\ call.op = "child" /\ call.state = "waiting"
     /\ call.children[call.at] = "never exits")
        ~> (/\ call.op = "child" /\ call.state = "returned"
            /\ call.result \in {"PrefixPrepareError", "(False, timed out)"})


(***************************************************************************)
(* WineManager.download_wine: the cached archive, its verification, the    *)
(* download and the extraction, as one call.  The cache holds at most one  *)
(* file under the archive's name: a set with the archive it contains.      *)
(***************************************************************************)

\* check_wine_installed: the binary of wine_dir exists and is a file
CheckWineInstalled(fsys, wd) ==
    (wd \o <<"f">>) \in DOMAIN fsys /\ fsys[wd \o <<"f">>].kind = "file"

DownloadWineTrustCache(env, archive) ==
    /\ call.op = "none" /\ xres.outcome = "none"
    /\ LET damaged == {Append(archive, Member("reg", <<"f">>, NoLink))}
           \* verify_wine_integrity
           Verify(file) == env.expected /\ file = {archive}
           kept == env.cached
           got == IF kept # {} THEN kept
                  ELSE IF env.served = "whole" THEN {archive}
                  ELSE IF env.served = "error" THEN {}
                  ELSE damaged
           Done(result, cache) ==
               call' = [ op |-> "download_wine", env |-> env,
                         archive |-> archive, result |-> result,
                         cache |-> cache ]
       IN  IF CheckWineInstalled(fs, wineDir)
           THEN Done("already installed", env.cached) /\ UNCHANGED xvars
           ELSE IF ~env.url
           THEN Done("No Wine download URL", env.cached) /\ UNCHANGED xvars
           ELSE IF kept = {} /\ env.served \in {"error", "cut"}
           THEN Done("Download failed", got) /\ UNCHANGED xvars
           ELSE IF kept = {} /\ ~Verify(got)
           THEN Done("Failed to verify", {}) /\ UNCHANGED xvars
           ELSE /\ Extracted(SafeExtract(fs, archive), Given(fs, archive))
                /\ wineDir' = IF xres'.outcome = "ok"
                              THEN RefreshWinePaths(fs') ELSE wineDir
                /\ Done(IF xres'.outcome = "fail" THEN "Extraction failed"
                        ELSE IF xres'.outcome = "raise" THEN "Unexpected error"
                        ELSE IF CheckWineInstalled(fs', wineDir')
                        THEN "installed"
                        ELSE "Wine binary not found",
                        got)
    /\ UNCHANGED <<pvars, dvars>>

\* download_wine() where archive is what the expected checksum belongs to:
\* env tells whether a URL and the expected checksum can be had, what the
\* cache holds and what the server answers
DownloadWine(env, archive) ==
    /\ call.op = "none" /\ xres.outcome = "none"
    /\ LET damaged == {Append(archive, Member("reg", <<"f">>, NoLink))}
           \* verify_wine_integrity
           Verify(file) == env.expected /\ file = {archive}
           kept == IF Verify(env.cached) THEN env.cached ELSE {}
           got == IF kept # {} THEN kept
                  ELSE IF env.served = "whole" THEN {archive}
                  ELSE IF env.served = "error" THEN {}
                  ELSE damaged
           Done(result, cache) ==
               call' = [ op |-> "download_wine", env |-> env,
                         archive |-> archive, result |-> result,
                         cache |-> cache ]
       IN  IF CheckWineInstalled(fs, wineDir)
           THEN Done("already installed", env.cached) /\ UNCHANGED xvars
           ELSE IF ~env.url
           THEN Done("No Wine download URL", env.cached) /\ UNCHANGED xvars
           ELSE IF kept = {} /\ env.served \in {"error", "cut"}
           THEN Done("Download failed", got) /\ UNCHANGED xvars
           ELSE IF ~Verify(got)
           THEN Done("Failed to verify", {}) /\ UNCHANGED xvars
           ELSE /\ Extracted(SafeExtract(fs, archive), Given(fs, archive))
                /\ wineDir' = IF xres'.outcome = "ok"
                              THEN RefreshWinePaths(fs') ELSE wineDir
                /\ Done(IF xres'.outcome = "fail" THEN "Extraction failed"
                        ELSE IF xres'.outcome = "raise" THEN "Unexpected error"
                        ELSE IF CheckWineInstalled(fs', wineDir')
                        THEN "installed"
                        ELSE "Wine binary not found",
                        got)
    /\ UNCHANGED <<pvars, dvars>>

NextWine ==
    /\ call.op = "none"
    /\ \E env \in [ url : BOOLEAN, expected : BOOLEAN,
                    served : {"error", "cut", "corrupt", "whole"},
                    cached : {"none", "archive", "damaged"} ],
          archive \in {a \in Archives : Len(a) <= 1} :
          DownloadWine([env EXCEPT !.cached =
                            IF @ = "none" THEN {}
                            ELSE IF @ = "archive" THEN {archive}
                            ELSE {Append(archive, Member("reg", <<"f">>, NoLink))}],
                       archive)

SpecWine == InitExtract /\ [][NextWine]_vars

\* C16: a download_wine that fails because the archive does not verify or
\* because extraction meets a path-safety violation leaves no archive file
\* in the cache.
C16_RejectedArchiveRemoved ==
    (/\ call.op = "download_wine"
     /\ \/ call.result = "Failed to verify"
        \/ /\ call.result = "Extraction failed"
           /\ xres.msg \in {"escapes destination", "unsupported special file",
                            "unsafe link", "escaping link"})
        => call.cache = {}


(***************************************************************************)
(* core/installer_scanner.py: InstallerScanner.  A file name is its stem   *)
(* as words (a text word, or dotted numbers with or without a leading      *)
(* 'v') and its suffix; rank is the place of the lower-cased stem in       *)
(* string order, upper tells that the name is written in capitals.         *)
(***************************************************************************)
MaxFiles == 2

\* the files a search root can hold
InstallerFiles ==
    LET T(s) == [t |-> s, nums |-> <<>>]
        N(ns) == [t |-> "", nums |-> ns]
        Name(r, ws) == [rank |-> r, words |-> ws]
        File(n, d, sfx, up, k) ==
            [ rank |-> n.rank, words |-> n.words, dir |-> d, suffix |-> sfx,
              upper |-> up, kind |-> k ]
        designer250 == Name(3, <<T("affinity"), T("designer"), N(<<2, 5, 0>>)>>)
        photo1106 == Name(7, <<T("affinity"), T("photo"), N(<<1, 10, 6>>)>>)
        photo190 == Name(8, <<T("affinity"), T("photo"), N(<<1, 9, 0>>)>>)
    IN  { File(n, "", ".exe", FALSE, "file") :
            n \in { Name(1, <<T("affinity"), T("designer"), N(<<1, 9, 0>>)>>),
                    Name(2, <<T("affinity"), T("designer"), N(<<2, 10, 0>>)>>),
                    designer250,
                    Name(4, <<T("affinity"), T("designer"), N(<<2, 6, 1>>)>>),
                    Name(5, <<T("affinity"), T("designer"), T("msi"),
                              N(<<2, 6, 5>>)>>),
                    Name(6, <<T("affinity"), T("photo")>>),
                    photo1106, photo190,
                    Name(9, <<T("affinity"), T("photo"), N(<<2>>)>>),
                    Name(10, <<T("affinity"), T("photo"), T("msi"),
                               N(<<1, 2, 0>>)>>),
                    Name(11, <<T("affinity"), T("publisher"),
                               [t |-> "v", nums |-> <<2>>], N(<<2, 3, 1>>)>>),
                    Name(12, <<T("affinity"), T("universal"), N(<<2, 5, 0>>)>>),
                    Name(13, <<T("affinity"), T("universal"), N(<<2, 6, 1>>)>>),
                    Name(14, <<T("not"), T("affinity")>>),
                    Name(15, <<T("photo"), N(<<2, 0, 0>>)>>) } }
        \cup { File(designer250, "sub", ".exe", FALSE, "file"),
               File(designer250, "", ".exe", TRUE, "file"),
               File(photo1106, "", ".msi", FALSE, "file"),
               File(photo1106, "", ".txt", FALSE, "file"),
               File(photo190, "sub", ".exe", FALSE, "dir") }

\* _parse_candidate without the test for INSTALLER_NAME_PREFIX
ParseCandidateNoPrefix(file) ==
    LET \* re.split(r"[^a-z0-9]+", path.stem.lower()): the tokens that are
        \* not numbers ("v2" is the one token a 'v' word can give)
        tokens == ({ w.t : w \in { file.words[i] : i \in 1..Len(file.words) } }
                      \ {"", "v"})
                  \cup { "v2" : i \in { i \in 1..Len(file.words) :
                                          /\ file.words[i].t = "v"
                                          /\ Head(file.words[i].nums) = 2 } }
        \* PRODUCT_ALIASES in dictionary order
        product == IF tokens \cap {"photo", "aphoto", "affinityphoto"} # {}
                   THEN "photo"
                   ELSE IF tokens \cap {"designer", "adesigner",
                                        "affinitydesigner"} # {}
                   THEN "designer"
                   ELSE IF tokens \cap {"publisher", "apublisher",
                                        "affinitypublisher"} # {}
                   THEN "publisher"
                   ELSE ""
        \* VERSION_RE.search: the first run of two or more dotted numbers
        versioned == { i \in 1..Len(file.words) : Len(file.words[i].nums) >= 2 }
        label == file.words[CHOOSE i \in versioned :
                               \A j \in versioned : i <= j].nums
    IN  IF product = "" \/ versioned = {}
        THEN <<>>
        ELSE << [ product |-> product,
                  version_type |-> IF \/ Head(label) >= 2
                                      \/ tokens \cap {"msi", "v2"} # {}
                                   THEN "v2" ELSE "v1",
                  version_label |-> label,
                  path |-> file ] >>

\* _parse_candidate(path) with _extract_product, _extract_version and
\* _infer_version_type: no candidate, or the one candidate of the file
ParseCandidate(file) ==
    LET \* re.split(r"[^a-z0-9]+", path.stem.lower()): the tokens that are
        \* not numbers ("v2" is the one token a 'v' word can give)
        tokens == ({ w.t : w \in { file.words[i] : i \in 1..Len(file.words) } }
                      \ {"", "v"})
                  \cup { "v2" : i \in { i \in 1..Len(file.words) :
                                          /\ file.words[i].t = "v"
                                          /\ Head(file.words[i].nums) = 2 } }
        \* PRODUCT_ALIASES in dictionary order
        product == IF tokens \cap {"photo", "aphoto", "affinityphoto"} # {}
                   THEN "photo"
                   ELSE IF tokens \cap {"designer", "adesigner",
                                        "affinitydesigner"} # {}
                   THEN "designer"
                   ELSE IF tokens \cap {"publisher", "apublisher",
                                        "affinitypublisher"} # {}
                   THEN "publisher"
                   ELSE ""
        \* VERSION_RE.search: the first run of two or more dotted numbers
        versioned == { i \in 1..Len(file.words) : Len(file.words[i].nums) >= 2 }
        label == file.words[CHOOSE i \in versioned :
                               \A j \in versioned : i <= j].nums
    IN  IF "affinity" \notin tokens \/ product = "" \/ versioned = {}
        THEN <<>>
        ELSE << [ product |-> product,
                  version_type |-> IF \/ Head(label) >= 2
                                      \/ tokens \cap {"msi", "v2"} # {}
                                   THEN "v2" ELSE "v1",
                  version_label |-> label,
                  path |-> file ] >>

\* scan(): the candidates of the files under the root, met in the order
\* rglob enumerates them (root.files), sorted by (product, version_type,
\* version_label, path.name.lower()) with list.sort, which is stable and
\* compares the labels and the names as strings
Scan(root) ==
    LET suffixes == {".exe", ".msi", ".msix"}
        Rank(s) == CASE s = "designer" -> 1 [] s = "photo" -> 2
                     [] s = "publisher" -> 3 [] s = "v1" -> 1 [] s = "v2" -> 2
                     [] s = ".exe" -> 1 [] s = ".msi" -> 2 [] s = ".msix" -> 3
        \* the characters of a number and of a label: '.' is 0, digit d is d+1
        Digits(n) == IF n < 10 THEN <<n + 1>> ELSE <<(n \div 10) + 1, (n % 10) + 1>>
        RECURSIVE Chars(_)
        Chars(ns) == IF Len(ns) = 1 THEN Digits(ns[1])
                     ELSE Digits(ns[1]) \o <<0>> \o Chars(Tail(ns))
        Key(c) == <<Rank(c.product), Rank(c.version_type)>>
                      \o Chars(c.version_label)
                      \o <<-1, c.path.rank, Rank(c.path.suffix)>>
        RECURSIVE Less(_, _)
        Less(a, b) == IF b = <<>> THEN FALSE
                      ELSE IF a = <<>> THEN TRUE
                      ELSE IF Head(a) # Head(b) THEN Head(a) < Head(b)
                      ELSE Less(Tail(a), Tail(b))
        RECURSIVE Insert(_, _)
        Insert(c, sorted) ==
            IF sorted = <<>> THEN <<c>>
            ELSE IF Less(Key(c), Key(Head(sorted))) THEN <<c>> \o sorted
            ELSE <<Head(sorted)>> \o Insert(c, Tail(sorted))
        RECURSIVE Sorted(_)
        Sorted(cs) == IF cs = <<>> THEN <<>>
                      ELSE Insert(cs[Len(cs)], Sorted(SubSeq(cs, 1, Len(cs) - 1)))
        RECURSIVE Candidates(_)
        Candidates(fs_) ==
            IF fs_ = <<>> THEN <<>>
            ELSE (IF Head(fs_).kind = "file" /\ Head(fs_).suffix \in suffixes
                  THEN ParseCandidate(Head(fs_)) ELSE <<>>)
                 \o Candidates(Tail(fs_))
    IN  IF ~root.exists THEN <<>> ELSE Sorted(Candidates(root.files))

\* select(products, version) that filters by product only
SelectAnyVersion(root, products, version) ==
    LET Pick(p) == SelectSeq(Scan(root), LAMBDA c : c.product = p)
        named == { products[i].name : i \in 1..Len(products) }
    IN  IF named \subseteq {"photo", "designer", "publisher"}
        THEN [ raised |-> "",
               selection |-> [p \in {p \in named : Pick(p) # <<>>} |-> Head(Pick(p))] ]
        ELSE [ raised |-> "ValueError", selection |-> << >> ]

\* select(products, version) with _normalize_product (strip and lower
\* drop how a product was spelled) and _pick_candidate: the dictionary of
\* the first candidate of each product, or the ValueError
Select(root, products, version) ==
    LET Pick(p) == SelectSeq(Scan(root), LAMBDA c : c.product = p
                                                    /\ c.version_type = version)
        named == { products[i].name : i \in 1..Len(products) }
    IN  IF named \subseteq {"photo", "designer", "publisher"}
        THEN [ raised |-> "",
               selection |-> [p \in {p \in named : Pick(p) # <<>>} |-> Head(Pick(p))] ]
        ELSE [ raised |-> "ValueError", selection |-> << >> ]

\* InstallerScanner(root).select(products, version) on a search root
SelectCall(root, products, version) ==
    /\ call.op = "none"
    /\ call' = [ op |-> "select", root |-> root, products |-> products,
                 version |-> version, scan |-> Scan(root),
                 result |-> Select(root, products, version) ]
    /\ UNCHANGED <<xvars, pvars, dvars>>

\* the search root is missing, or holds up to MaxFiles files in the order
\* the filesystem lists them
NextScan ==
    /\ call.op = "none"
    /\ \E k \in 0..MaxFiles, exists \in BOOLEAN :
       \E files \in { f \in [1..k -> InstallerFiles] :
                        /\ \A i, j \in 1..k : i # j => f[i] # f[j]
                        /\ exists \/ k = 0 },
          products \in { <<[name |-> "photo", spelled |-> "photo"]>>,
                         <<[name |-> "designer", spelled |-> " Designer "]>>,
                         <<[name |-> "designer", spelled |-> "designer"],
                           [name |-> "publisher", spelled |-> "PUBLISHER"]>>,
                         <<[name |-> "all", spelled |-> "all"]>> },
          version \in {"v1", "v2", "latest"} :
          SelectCall([exists |-> exists, files |-> files], products, version)

SpecScan == InitIdle /\ [][NextScan]_vars


\* the candidates of the scan with the product and version type of c
Rivals(c) ==
    { call.scan[k] : k \in { k \in 1..Len(call.scan) :
                               /\ call.scan[k].product = c.product
                               /\ call.scan[k].version_type = c.version_type } }

\* version a is numerically at most version b
RECURSIVE AtMost(_, _)
AtMost(a, b) ==
    IF a = <<>> THEN TRUE
    ELSE IF b = <<>> THEN FALSE
    ELSE IF Head(a) # Head(b) THEN Head(a) < Head(b)
    ELSE AtMost(Tail(a), Tail(b))

\* C19: the scan of a root that holds Affinity_Universal_2.5.0.exe and
\* Affinity_Universal_2.6.1.exe has two candidates, and a selected candidate
\* has the numerically highest version among the candidates of its product
\* and version type.
C19_LatestIsHighest ==
    call.op = "select" =>
        /\ ({call.root.files[i].rank : i \in 1..Len(call.root.files)} = {12, 13}
               => Len(call.scan) = 2)
        /\ \A p \in DOMAIN call.result.selection :
               \A c \in Rivals(call.result.selection[p]) :
                   AtMost(c.version_label,
                          call.result.selection[p].version_label)

\* the requested products, as _normalize_product names them
Requested == { call.products[i].name : i \in 1..Len(call.products) }

\* C20: select, asked for products of AFFINITY_PRODUCTS and a version type,
\* raises nothing and returns for each product a candidate of the scan with
\* that product and version type when the scan has one and no entry
\* otherwise; nothing is returned for a product that was not asked for, and
\* on a missing or empty root the scan and the selection are empty.
C20_NeverSubstitutes ==
    (call.op = "select" /\ Requested \subseteq {"photo", "designer", "publisher"})
        => /\ call.result.raised = ""
           /\ DOMAIN call.result.selection \subseteq Requested
           /\ \A p \in Requested :
                  IF \E k \in 1..Len(call.scan) :
                         /\ call.scan[k].product = p
                         /\ call.scan[k].version_type = call.version
                  THEN /\ p \in DOMAIN call.result.selection
                       /\ call.result.selection[p].product = p
                       /\ call.result.selection[p].version_type = call.version
                       /\ call.result.selection[p] \in Rivals(call.result.selection[p])
                  ELSE p \notin DOMAIN call.result.selection
           /\ (call.root.files = <<>>)
                  => call.scan = <<>> /\ call.result.selection = << >>

\* designer and publisher are asked for in v2 where the root holds a v1
\* designer and a v2 publisher: only the publisher is selected
C20_Witness ==
    /\ call.op = "select" /\ call.version = "v2"
    /\ Requested = {"designer", "publisher"}
    /\ \E k \in 1..Len(call.scan) :
           call.scan[k].product = "designer" /\ call.scan[k].version_type = "v1"
    /\ DOMAIN call.result.selection = {"publisher"}
    /\ call.result.selection["publisher"].version_type = "v2"


\* the file's lower-cased name has the token s
HasToken(file, s) ==
    \E i \in 1..Len(file.words) :
        \/ file.words[i].t = s /\ file.words[i].nums = <<>>
        \/ s = "v2" /\ file.words[i].t = "v" /\ Head(file.words[i].nums) = 2

\* the file is an installer by the rules of the scan
Qualifies(file) ==
    /\ file.kind = "file" /\ file.suffix \in {".exe", ".msi", ".msix"}
    /\ HasToken(file, "affinity")
    /\ \E alias \in {"photo", "aphoto", "affinityphoto", "designer",
                     "adesigner", "affinitydesigner", "publisher",
                     "apublisher", "affinitypublisher"} : HasToken(file, alias)
    /\ \E i \in 1..Len(file.words) : Len(file.words[i].nums) >= 2

C24_FailedExtractionCleaned ==
    xres.outcome = "fail" => ArchiveFilesLeft = {}


\* C26: after a 416 answer the next request carries no Range header and the
\* destination is written again from byte zero (the partial file is gone:
\* the call returns with exactly the served payload, or raises leaving no
\* more than what the new stream wrote); the call ends by returning or
\* raising whatever the server answers.
C26_RestartAfter416 ==
    (dl.outcome # "none" /\ (Len(dl.requests) > 1 \/ dl.why = "recursion"))
        => /\ \A i \in 2..Len(dl.requests) : dl.requests[i] = 0
           /\ dl.outcome \in {"returned", "raised"}
           /\ dl.outcome = "returned" => dest = <<dl.payload>>
           /\ dl.final.status \in {"416", "error"} => dest = NoFile
           /\ dest # NoFile => dest[1] = SubSeq(dl.payload, 1, Len(dest[1]))

\* a range request from byte 1 was answered 416, the second request asked
\* for the whole payload and the call returned with it
C26_Witness ==
    /\ dl.outcome = "returned"
    /\ dl.before = << <<"a">> >>
    /\ dl.requests = <<1, 0>>
    /\ dl.expected # NoChecksum
    /\ dest = <<dl.payload>>


\* C27: download_url.txt changes only in an ensure_universal call that was
\* given a download_url, fetched from it and returned, with the destination
\* matching the expected checksum when one was given; it then holds that URL.
C27_UrlPersistedOnlyOnSuccess ==
    [][urlFile' # urlFile =>
          /\ dl'.outcome = "returned" /\ dl'.source = "provided"
          /\ dl'.requests # <<>>
          /\ urlFile' = <<"u1">>
          /\ dl'.expected # NoChecksum => Matches(dest', dl'.expected[1])]_vars

\* a verified fetch from the caller's URL was persisted
C27_Witness ==
    /\ dl.outcome = "returned" /\ dl.source = "provided"
    /\ dl.expected # NoChecksum /\ Matches(dest, dl.expected[1])
    /\ urlFile = <<"u1">>


\* C23: a prepare whose winecfg step fails, every later step succeeding,
\* does not abort: the registry override is applied and the call completes.
C23_WinecfgBestEffort ==
    (/\ prep.outcome # "none" /\ prep.steps # <<>>
     /\ ~prep.env.winecfg
     /\ prep.env.winetricks = "ok" /\ prep.env.regwrite /\ prep.env.regedit)
        => /\ prep.outcome = "done"
           /\ \E i \in 1..Len(prep.steps) : prep.steps[i] = "regedit"


(***************************************************************************)
(* C25: DistroDetector resolves the family with the precedence: exact      *)
(* table lookup of the normalized primary ID, then the first ID_LIKE entry *)
(* found in the table, then substring heuristics on the ID.  In            *)
(* particular, when os-release was read, the primary ID misses the table   *)
(* and an ID_LIKE entry is in the table, the family and the package        *)
(* manager are those of the first such ID_LIKE entry.                      *)
(***************************************************************************)
PrimaryMisses(raw) ==
    LET n == Text(SelectSeq(raw.parts, LAMBDA p : p # <<>>), "-", FALSE)
    IN /\ ~Falsy(raw)
       /\ n.parts # <<>>
       /\ FirstMapped(<<n, Word(Flat(n.parts)), Word(n.parts[1])>>
                          \o WithoutLinux(n)) = <<>>

C25_IdLikeBeforeHeuristics ==
    (/\ call.op = "detect"
     /\ call.host.osr.state = "read"
     /\ PrimaryMisses(call.host.osr.id)
     /\ FirstMapped(call.host.osr.like) # <<>>)
        => \E d \in DistroMapping :
               /\ d.id = FirstMapped(call.host.osr.like)[1]
               /\ call.info.family = d.family
               /\ call.info.package_manager = d.pm


(***************************************************************************)
(* InstallerDiscovery (installer_discovery.py): the installers of one      *)
(* directory and the choice of one of them for a product.                  *)
(*                                                                         *)
(* A directory entry is [head, product, msi, version, suffix, upper,       *)
(* kind]: the name is head-product[-msi]-version suffix, version is the    *)
(* sequence of its dot-separated numbers, each a sequence of decimal       *)
(* digits as written ("05" is <<0, 5>>), and upper tells that the name is  *)
(* written with capital letters.                                           *)
(***************************************************************************)
MaxInstallers == 3

DiscoveryFiles ==
    LET F(head, product, msi, version, suffix, upper, kind) ==
            [ head |-> head, product |-> product, msi |-> msi,
              version |-> version, suffix |-> suffix, upper |-> upper,
              kind |-> kind ]
    IN { F("affinity", "photo", FALSE, << <<1>>, <<1, 0>>, <<6>> >>, ".exe", FALSE, "file"),
         F("affinity", "photo", FALSE, << <<1>>, <<9>>, <<0>> >>, ".exe", FALSE, "file"),
         F("affinity", "photo", TRUE, << <<2>>, <<6>>, <<5>> >>, ".exe", FALSE, "file"),
         F("affinity", "photo", TRUE, << <<2>>, <<1, 0>>, <<0>> >>, ".exe", FALSE, "file"),
         F("affinity", "photo", TRUE, << <<2>>, <<0, 6>>, <<5>> >>, ".exe", FALSE, "file"),
         F("affinity", "designer", FALSE, << <<3>>, <<0>>, <<0>> >>, ".exe", TRUE, "file"),
         F("affinity", "designer", TRUE, << <<2>>, <<6>>, <<5>> >>, ".exe", FALSE, "file"),
         F("affinity", "publisher", TRUE, << <<2>>, <<6>> >>, ".exe", FALSE, "file"),
         F("affinity", "photo", TRUE, << <<9>>, <<0>>, <<0>> >>, ".msi", FALSE, "file"),
         F("affinity", "photo", TRUE, << <<9>>, <<9>>, <<9>> >>, ".exe", FALSE, "dir"),
         F("serif", "designer", TRUE, << <<9>>, <<0>>, <<0>> >>, ".exe", FALSE, "file") }

\* scan(): the entries of the directory itself that are files and match
\* INSTALLER_PATTERN (case-insensitively), as InstallerInfo records, sorted
\* by (product, version, Version(file_version)) with the stable list.sort.
\* The product of a record is the lower-cased product group of the name.
DiscoveryScan(directory) ==
    LET Rank(s) == CASE s = "designer" -> 1 [] s = "photo" -> 2
                     [] s = "publisher" -> 3 [] s = "v1" -> 1 [] s = "v2" -> 2
        RECURSIVE Number(_)
        Number(ds) == IF ds = <<>> THEN 0
                   ELSE 10 * Number(SubSeq(ds, 1, Len(ds) - 1)) + ds[Len(ds)]
        Key(i) == <<Rank(i.product.word), Rank(i.version), Number(i.file_version[1]),
                    Number(i.file_version[2]), Number(i.file_version[3])>>
        RECURSIVE Less(_, _)
        Less(a, b) == IF a = <<>> THEN FALSE
                      ELSE IF Head(a) # Head(b) THEN Head(a) < Head(b)
                      ELSE Less(Tail(a), Tail(b))
        RECURSIVE Insert(_, _)
        Insert(c, sorted) ==
            IF sorted = <<>> THEN <<c>>
            ELSE IF Less(Key(c), Key(Head(sorted))) THEN <<c>> \o sorted
            ELSE <<Head(sorted)>> \o Insert(c, Tail(sorted))
        RECURSIVE Sorted(_)
        Sorted(cs) == IF cs = <<>> THEN <<>>
                      ELSE Insert(cs[Len(cs)], Sorted(SubSeq(cs, 1, Len(cs) - 1)))
        MatchesPattern(file) ==
            /\ file.head = "affinity"
            /\ file.product \in {"photo", "designer", "publisher"}
            /\ Len(file.version) = 3
            /\ file.suffix = ".exe"
        RECURSIVE Installers(_)
        Installers(files) ==
            IF files = <<>> THEN <<>>
            ELSE (IF Head(files).kind = "file" /\ MatchesPattern(Head(files))
                  THEN << [ product |-> Lower([ word |-> Head(files).product,
                                                upper |-> Head(files).upper ]),
                            version |-> IF Head(files).msi THEN "v2" ELSE "v1",
                            file_version |-> Head(files).version,
                            path |-> Head(files) ] >>
                  ELSE <<>>)
                 \o Installers(Tail(files))
    IN  IF ~directory.exists THEN <<>> ELSE Sorted(Installers(directory.entries))

\* select_installer(product, preferred_version); preferred_version "None"
\* is Python's None.
SelectInstallerFirst(directory, product, preferred_version) ==
    LET candidates == SelectSeq(DiscoveryScan(directory),
                                LAMBDA inst : inst.product
                                    = [word |-> product, upper |-> FALSE])
        preferred == SelectSeq(candidates,
                               LAMBDA inst : inst.version = preferred_version)
        v2 == SelectSeq(candidates, LAMBDA inst : inst.version = "v2")
        Raise == [raised |-> "FileNotFoundError", installer |-> <<>>]
        Return(inst) == [raised |-> "none", installer |-> <<inst>>]
    IN  IF candidates = <<>> THEN Raise
        ELSE IF preferred_version # "None"
        THEN (IF preferred = <<>> THEN Raise ELSE Return(preferred[1]))
        ELSE IF v2 # <<>> THEN Return(v2[1])
        ELSE Return(candidates[1])

SelectInstaller(directory, product, preferred_version) ==
    LET candidates == SelectSeq(DiscoveryScan(directory),
                                LAMBDA inst : inst.product
                                    = [word |-> product, upper |-> FALSE])
        preferred == SelectSeq(candidates,
                               LAMBDA inst : inst.version = preferred_version)
        v2 == SelectSeq(candidates, LAMBDA inst : inst.version = "v2")
        Raise == [raised |-> "FileNotFoundError", installer |-> <<>>]
        Return(inst) == [raised |-> "none", installer |-> <<inst>>]
    IN  IF candidates = <<>> THEN Raise
        ELSE IF preferred_version # "None"
        THEN (IF preferred = <<>> THEN Raise
              ELSE Return(preferred[Len(preferred)]))
        ELSE IF v2 # <<>> THEN Return(v2[Len(v2)])
        ELSE Return(candidates[Len(candidates)])

SelectInstallerCall(directory, product, preferred_version) ==
    /\ call.op = "none"
    /\ call' = [ op |-> "select_installer", directory |-> directory,
                 product |-> product, preferred_version |-> preferred_version,
                 result |-> SelectInstaller(directory, product,
                                            preferred_version) ]
    /\ UNCHANGED <<xvars, pvars, dvars>>

NextDiscovery ==
    /\ call.op = "none"
    /\ \E k \in 0..MaxInstallers, exists \in BOOLEAN :
       \E entries \in { f \in [1..k -> DiscoveryFiles] :
                          /\ \A i, j \in 1..k : i # j => f[i] # f[j]
                          /\ exists \/ k = 0 },
          product \in {"photo", "designer", "publisher"},
          preferred_version \in {"None", "v1", "v2"} :
          SelectInstallerCall([exists |-> exists, entries |-> entries],
                              product, preferred_version)

SpecDiscovery == InitIdle /\ [][NextDiscovery]_vars

(***************************************************************************)
(* C22: select_installer(product) with no preferred version returns a v2   *)
(* installer of that product whenever one exists and a v1 installer        *)
(* otherwise; with a preferred version it returns an installer of exactly  *)
(* that version type; within the chosen version type it returns the        *)
(* installer with the highest file version; and it raises                  *)
(* FileNotFoundError when the product has no installer or none of the      *)
(* preferred version type.                                                 *)
(***************************************************************************)
\* The numbers of a file version, as the claim reads them.
RECURSIVE Numbers(_)
Numbers(version) ==
    LET RECURSIVE N(_)
        N(ds) == IF ds = <<>> THEN 0
                 ELSE 10 * N(SubSeq(ds, 1, Len(ds) - 1)) + ds[Len(ds)]
    IN IF version = <<>> THEN <<>>
       ELSE <<N(Head(version))>> \o Numbers(Tail(version))

\* The installers of a product and a version type that the directory holds.
InstallersOf(directory, product, type) ==
    { f \in { directory.entries[i] : i \in 1..Len(directory.entries) } :
        /\ directory.exists
        /\ f.kind = "file" /\ f.head = "affinity" /\ f.suffix = ".exe"
        /\ Len(f.version) = 3
        /\ f.product = product
        /\ type = (IF f.msi THEN "v2" ELSE "v1") }

C22_SelectInstaller ==
    call.op = "select_installer" =>
        LET Of(type) == InstallersOf(call.directory, call.product, type)
            wanted == IF call.preferred_version # "None"
                      THEN call.preferred_version
                      ELSE IF Of("v2") # {} THEN "v2" ELSE "v1"
        IN IF Of(wanted) = {}
           THEN call.result.raised = "FileNotFoundError"
           ELSE /\ call.result.raised = "none"
                /\ call.result.installer[1].product
                       = [word |-> call.product, upper |-> FALSE]
                /\ call.result.installer[1].version = wanted
                /\ call.result.installer[1].path \in Of(wanted)
                /\ \A f \in Of(wanted) :
                       AtMost(Numbers(f.version),
                              Numbers(call.result.installer[1].file_version))

\* No preference, a v1 installer with the highest number of all, and two v2
\* installers of which the later-enumerated one is the lower: the higher v2
\* installer (2.10.0 over 2.6.5) is returned.
C22_Witness ==
    /\ call.op = "select_installer"
    /\ call.preferred_version = "None"
    /\ call.result.raised = "none"
    /\ call.result.installer[1].version = "v2"
    /\ Numbers(call.result.installer[1].file_version) = <<2, 10, 0>>
    /\ Len(call.directory.entries) = 3
    /\ call.directory.entries[3].msi
    /\ Numbers(call.directory.entries[3].version) = <<2, 6, 5>>
    /\ InstallersOf(call.directory, call.product, "v1") # {}


(***************************************************************************)
(* C28: run_install executes its stages strictly in order and halts at     *)
(* the first hard failure: a failed dependency install, runtime download,  *)
(* prefix creation or installer discovery ends the run before any          *)
(* installer process is started, and desktop integration is performed only *)
(* for products whose installation succeeded and was verified (never when  *)
(* no product installed successfully).                                     *)
(***************************************************************************)
StageOf(step) ==
    CASE step = "get_distro_info" -> 1
      [] step = "install_dependencies" -> 2
      [] step = "download_wine" -> 3
      [] step = "create_prefix" -> 4
      [] step \in {"configure_prefix", "install_dotnet", "install_fonts"} -> 5
      [] step = "detect_installer" -> 6
      [] step = "install_affinity_product" -> 7
      [] step = "integrate_product" -> 8

\* the hard failure of a run, as the stage it happens in (0: none)
FailedStage(env) ==
    IF env.deps = "failed" THEN 2
    ELSE IF env.wine = "failed" THEN 3
    ELSE IF env.prefix = "failed" THEN 4
    ELSE IF ~env.searchDir \/ ~env.winePath \/ env.detected = <<>> THEN 6
    ELSE 0

C28_StagesInOrderHaltOnFailure ==
    call.op = "install" =>
        LET steps == call.steps
            Started(name, p) ==
                { i \in 1..Len(steps) :
                      steps[i].step = name /\ steps[i].product = p }
        IN /\ \A i, j \in 1..Len(steps) :
                  i < j => StageOf(steps[i].step) <= StageOf(steps[j].step)
           /\ FailedStage(call.env) # 0 =>
                  \A i \in 1..Len(steps) :
                      StageOf(steps[i].step) <= FailedStage(call.env)
                      /\ StageOf(steps[i].step) < 7
           /\ \A i \in 1..Len(steps) :
                  steps[i].step = "integrate_product" =>
                      /\ call.env.result[steps[i].product] = "ok"
                      /\ \E j \in Started("install_affinity_product",
                                          steps[i].product) : j < i
           /\ (\A i \in 1..Len(steps) :
                   steps[i].step = "install_affinity_product"
                       => call.env.result[steps[i].product] # "ok")
                  => \A i \in 1..Len(steps) :
                         steps[i].step # "integrate_product"

\* A run that installs three products of which only the first succeeds:
\* the other two installers were started and only photo is integrated.
C28_Witness ==
    /\ call.op = "install"
    /\ FailedStage(call.env) = 0
    /\ call.env.result["designer"] = "timeout"
    /\ \E i, j, k \in 1..Len(call.steps) :
          /\ i < j /\ j < k /\ k = Len(call.steps)
          /\ call.steps[i] = [step |-> "install_affinity_product",
                              product |-> "designer"]
          /\ call.steps[j] = [step |-> "install_affinity_product",
                              product |-> "publisher"]
          /\ call.steps[k] = [step |-> "integrate_product", product |-> "photo"]
    /\ \A i \in 1..Len(call.steps) :
          call.steps[i].step = "integrate_product"
              => call.steps[i].product = "photo"


(***************************************************************************)
(* C29: scan results are deterministically ordered: two scans of the same  *)
(* directory tree return the same candidate sequence regardless of the     *)
(* order in which the filesystem enumerates entries, including when files  *)
(* with the same name exist in different subdirectories, so that the       *)
(* candidate picked by select is the same on every run.                    *)
(***************************************************************************)
\* The same tree, enumerated in another order.
Reenumerated(root) ==
    { [root EXCEPT !.files = [i \in 1..Len(root.files) |-> root.files[p[i]]]] :
        p \in { q \in [1..Len(root.files) -> 1..Len(root.files)] :
                  \A i, j \in 1..Len(root.files) : i # j => q[i] # q[j] } }

C29_ScanOrderIndependent ==
    call.op = "select" =>
        \A other \in Reenumerated(call.root) :
            /\ Scan(other) = call.scan
            /\ Select(other, call.products, call.version) = call.result


(***************************************************************************)
(* C30: download_wine extracts an archive only after that archive's        *)
(* SHA-256 has been verified against the expected checksum within the same *)
(* call, for both a cached and a freshly downloaded archive (a cached      *)
(* archive that fails verification is deleted and downloaded again first); *)
(* when the expected checksum cannot be obtained, verification fails       *)
(* closed and nothing is extracted.                                        *)
(***************************************************************************)
C30_VerifiedBeforeExtract ==
    call.op = "download_wine" =>
        /\ xres.outcome # "none" =>
               /\ call.env.expected
               /\ call.cache = {call.archive}
               /\ call.env.cached # {call.archive} => call.env.served = "whole"
        /\ ~call.env.expected =>
               /\ xres.outcome = "none" /\ xres.written = {}
               /\ call.result \in {"already installed", "No Wine download URL",
                                   "Download failed", "Failed to verify"}

\* A damaged archive in the cache is replaced by a download that verifies,
\* and the runtime is installed from it.
C30_Witness ==
    /\ call.op = "download_wine"
    /\ call.env.cached # {} /\ call.env.cached # {call.archive}
    /\ call.env.served = "whole"
    /\ call.result = "installed"
    /\ xres.outcome = "ok" /\ xres.written # {}


====
